---- MODULE Spec2Model ----
(***************************************************************************)
(* Model of the crypto market data validator (src/src/validators.py), its  *)
(* status codes (src/src/constants.py) and the Airflow DAG that drives it  *)
(* (src/dags/crypto_market_data_pipeline.py).                              *)
(*                                                                         *)
(* A batch (pandas DataFrame) is a record                                  *)
(*     [kind |-> "DataFrame", columns |-> set of names, rows |-> sequence] *)
(* whose rows are functions from the column names to cells.  A cell is a   *)
(* number (a rational n/d), a text (a sequence of characters), a missing   *)
(* value (None / NaN), or a boolean written by a flag rule.                *)
(***************************************************************************)
EXTENDS Integers, Sequences, FiniteSets, TLC

VARIABLES
    df,             \* the batch object the caller holds (None, a non-table, a DataFrame)
    schema_result,  \* what validate_schema last returned ("none" before any call)
    raised,         \* the exception that ended the session, and the method that raised it
    report,         \* the report the session produced (NoReport before)
    ti,             \* DAG run: state of every task instance
    try_number,     \* DAG run: attempts made by every task instance
    xcom,           \* DAG run: values pushed by the tasks
    raw_file,       \* DAG run: the raw CSV file on disk
    flagged_file,   \* DAG run: the flagged CSV file on disk
    notification,   \* DAG run: what the notify task logged
    validator,      \* shared validator: the attributes of the instance
    callers,        \* shared validator: each concurrent caller's batch, position, report
    api             \* API client: the call made, the requests sent, how it ended

vars == <<df, schema_result, raised, report,
          ti, try_number, xcom, raw_file, flagged_file, notification,
          validator, callers, api>>

-----------------------------------------------------------------------------
(* Bounds of the model *)

\* most records in a batch of the validator sessions
MaxRows == 2

\* most records in a batch of the market-cap rule's sessions
MaxCapRows == 2

\* most records in a raw file of a DAG run
MaxFileRows == 2

-----------------------------------------------------------------------------
(* Status codes: src/src/constants.py *)

VALID == "valid"
EMPTY_DATA == "empty_data"
INVALID_TYPE == "invalid_type"
MISSING_REQUIRED_FIELDS == "missing_required_fields"

SchemaValidationStatus == {VALID, EMPTY_DATA, INVALID_TYPE, MISSING_REQUIRED_FIELDS}

PASSED == "passed"
FAILED == "failed"
SKIPPED == "skipped"

ValidationStatus == {PASSED, FAILED, SKIPPED}

HAS_NON_NUMERIC_VALUE == "has_non_numeric_value"
HAS_ABNORMAL_PRICE == "has_abnormal_price"
HAS_INVALID_MARKET_CAP == "has_invalid_market_cap"
HAS_MISSING_VALUES == "has_missing_values"
HAS_DUPLICATE == "has_duplicate"
VALIDATED_AT == "validated_at"

FlagFields == {HAS_NON_NUMERIC_VALUE, HAS_ABNORMAL_PRICE, HAS_INVALID_MARKET_CAP,
               HAS_MISSING_VALUES, HAS_DUPLICATE}

-----------------------------------------------------------------------------
(* Static configuration of the validator: src/src/validators.py 20-39 *)

REQUIRED_FIELDS == {"id", "symbol", "name", "current_price",
                    "market_cap", "total_volume", "circulating_supply"}

NUMERIC_FIELDS == {"current_price", "market_cap", "market_cap_rank",
                   "total_volume", "high_24h", "low_24h",
                   "price_change_24h", "price_change_percentage_24h",
                   "market_cap_change_24h", "market_cap_change_percentage_24h",
                   "circulating_supply", "total_supply", "max_supply"}

-----------------------------------------------------------------------------
(* Cells *)

NaN == [kind |-> "nan"]
Num(n, d) == [kind |-> "num", n |-> n, d |-> d]
Txt(s) == [kind |-> "str", chars |-> s]
Flag(b) == [kind |-> "bool", v |-> b]

\* Series.isna / Series.notna on one cell
isna(c) == c.kind = "nan"
notna(c) == ~isna(c)

DigitSeq == <<"0", "1", "2", "3", "4", "5", "6", "7", "8", "9">>
Digits == {DigitSeq[k] : k \in 1..10}
DigitValue(ch) == (CHOOSE k \in 1..10 : DigitSeq[k] = ch) - 1

RECURSIVE ParseDigits(_)
ParseDigits(s) ==
    IF s = <<>> THEN 0
    ELSE ParseDigits(SubSeq(s, 1, Len(s) - 1)) * 10 + DigitValue(s[Len(s)])

\* a text of the model's alphabet is a number when it is an optional sign
\* followed by at least one digit
IsNumericText(s) ==
    LET body == IF Len(s) > 0 /\ s[1] = "-" THEN Tail(s) ELSE s
    IN  Len(body) > 0 /\ \A i \in 1..Len(body) : body[i] \in Digits

ParseNumber(s) ==
    IF s[1] = "-" THEN Num(0 - ParseDigits(Tail(s)), 1) ELSE Num(ParseDigits(s), 1)

\* pd.to_numeric(..., errors='coerce') on one cell: a number stays, a text
\* is parsed, anything that does not parse becomes NaN
to_numeric(c) ==
    IF c.kind = "num" THEN c
    ELSE IF c.kind = "str" /\ IsNumericText(c.chars) THEN ParseNumber(c.chars)
    ELSE NaN

-----------------------------------------------------------------------------
(* Arithmetic on numeric cells (positive denominators) *)

RFloor(x) == x.n \div x.d
RLt(x, y) ==
    IF RFloor(x) # RFloor(y) THEN RFloor(x) < RFloor(y)
    ELSE (x.n % x.d) * y.d < (y.n % y.d) * x.d
RGt(x, y) == RLt(y, x)
\* <= taken as <
RLe_strict(x, y) == RLt(x, y)
RLe(x, y) == ~RLt(y, x)
RGe(x, y) == ~RLt(x, y)
RMul(x, y) == Num(x.n * y.n, x.d * y.d)
RSub(x, y) == Num(x.n * y.d - y.n * x.d, x.d * y.d)
RAbs(x) == Num(IF x.n < 0 THEN 0 - x.n ELSE x.n, x.d)
\* x / y for y > 0
RDiv(x, y) == Num(x.n * y.d, x.d * y.n)
Zero == Num(0, 1)

-----------------------------------------------------------------------------
(* Batches *)

None == [kind |-> "None"]
NotADataFrame == [kind |-> "str"]
DataFrame(cols, rows) == [kind |-> "DataFrame", columns |-> cols, rows |-> rows]

IsDataFrame(d) == d.kind = "DataFrame"
len(d) == Len(d.rows)
\* DataFrame.empty: any axis of length 0
empty(d) == len(d) = 0 \/ d.columns = {}

\* df[col] = values: the column is added, or overwritten, for every row
SetColumn(d, col, values) ==
    DataFrame(d.columns \cup {col},
              [i \in 1..len(d) |->
                  [c \in d.columns \cup {col} |->
                      IF c = col THEN values[i] ELSE d.rows[i][c]]])

-----------------------------------------------------------------------------
(* validate_schema: src/src/validators.py 42-71 *)

validate_schema_wrong_order(d) ==
    IF d = None THEN EMPTY_DATA
    ELSE IF ~IsDataFrame(d) THEN INVALID_TYPE
    ELSE IF REQUIRED_FIELDS \ d.columns # {} THEN MISSING_REQUIRED_FIELDS
    ELSE IF empty(d) THEN EMPTY_DATA
    ELSE VALID

validate_schema_requires_values(d) ==
    IF d = None THEN EMPTY_DATA
    ELSE IF ~IsDataFrame(d) THEN INVALID_TYPE
    ELSE IF empty(d) THEN EMPTY_DATA
    ELSE IF REQUIRED_FIELDS \ d.columns # {} THEN MISSING_REQUIRED_FIELDS
    ELSE IF \E i \in 1..len(d) : \E f \in REQUIRED_FIELDS : isna(d.rows[i][f])
    THEN MISSING_REQUIRED_FIELDS
    ELSE VALID

validate_schema_no_none_check(d) ==
    IF ~IsDataFrame(d) THEN INVALID_TYPE
    ELSE IF empty(d) THEN EMPTY_DATA
    ELSE IF REQUIRED_FIELDS \ d.columns # {} THEN MISSING_REQUIRED_FIELDS
    ELSE VALID

validate_schema_unknown_code(d) ==
    IF d = None THEN EMPTY_DATA
    ELSE IF ~IsDataFrame(d) THEN "invalid"
    ELSE IF empty(d) THEN EMPTY_DATA
    ELSE IF REQUIRED_FIELDS \ d.columns # {} THEN MISSING_REQUIRED_FIELDS
    ELSE VALID

validate_schema(d) ==
    IF d = None THEN EMPTY_DATA
    ELSE IF ~IsDataFrame(d) THEN INVALID_TYPE
    ELSE IF empty(d) THEN EMPTY_DATA
    ELSE IF REQUIRED_FIELDS \ d.columns # {} THEN MISSING_REQUIRED_FIELDS
    ELSE VALID

-----------------------------------------------------------------------------
(* The flag rules: src/src/validators.py 74-238.  Each operator gives the  *)
(* batch as the call leaves it and the exception the call raises ("none"  *)
(* when it returns).                                                       *)

Returned(d) == [df |-> d, exc |-> "none"]
Raised(d, e) == [df |-> d, exc |-> e]

\* the boolean column that is True on the rows of the given set
Mask(d, rows) == [i \in 1..len(d) |-> Flag(i \in rows)]

Rows(d) == 1..len(d)

\* Reasonable price range (USD): 0.000001 .. 1000000
PRICE_RANGE == [min |-> Num(1, 1000000), max |-> Num(1000000, 1)]

\* the relative error from which a market cap is flagged: 0.05
TOLERANCE == Num(1, 20)

ExceedsTolerance_strictly(relative_error) == RGt(relative_error, TOLERANCE)

\* line 167: relative_error >= 0.05
ExceedsTolerance(relative_error) == RGe(relative_error, TOLERANCE)

\* the mask without its notna() half: a missing value counts as non-numeric
flag_invalid_numeric_types_flags_missing(d) ==
    IF ~IsDataFrame(d) THEN Raised(d, "TypeError")
    ELSE LET invalid_mask(i, field) == isna(to_numeric(d.rows[i][field]))
             flagged(i) ==
                 \E field \in NUMERIC_FIELDS \cap d.columns : invalid_mask(i, field)
         IN  Returned(SetColumn(d, HAS_NON_NUMERIC_VALUE, Mask(d, {i \in Rows(d) : flagged(i)})))

flag_invalid_numeric_types(d) ==
    IF ~IsDataFrame(d) THEN Raised(d, "TypeError")
    ELSE LET invalid_mask(i, field) ==
                 isna(to_numeric(d.rows[i][field])) /\ notna(d.rows[i][field])
             flagged(i) ==
                 \E field \in NUMERIC_FIELDS \cap d.columns : invalid_mask(i, field)
         IN  Returned(SetColumn(d, HAS_NON_NUMERIC_VALUE, Mask(d, {i \in Rows(d) : flagged(i)})))

\* the comparison done on the raw column: a text cannot be compared to a float
flag_abnormal_prices_no_coerce(d) ==
    IF ~IsDataFrame(d) THEN Raised(d, "TypeError")
    ELSE LET initialized == SetColumn(d, HAS_ABNORMAL_PRICE, Mask(d, {}))
             abnormal_price(i) ==
                 /\ "current_price" \in d.columns
                 /\ notna(d.rows[i]["current_price"])
                 /\ \/ RLt(d.rows[i]["current_price"], PRICE_RANGE.min)
                    \/ RGt(d.rows[i]["current_price"], PRICE_RANGE.max)
         IN  IF /\ "current_price" \in d.columns
                /\ \E i \in 1..len(d) : d.rows[i]["current_price"].kind = "str"
             THEN Raised(initialized, "TypeError")
             ELSE Returned(SetColumn(d, HAS_ABNORMAL_PRICE, Mask(d, {i \in Rows(d) : abnormal_price(i)})))

\* the comparison with the two bounds counted as out of range
flag_abnormal_prices_bounds_flagged(d) ==
    IF ~IsDataFrame(d) THEN Raised(d, "TypeError")
    ELSE LET numeric_prices(i) == to_numeric(d.rows[i]["current_price"])
             abnormal_price(i) ==
                 /\ "current_price" \in d.columns
                 /\ notna(numeric_prices(i))
                 /\ \/ RLe(numeric_prices(i), PRICE_RANGE.min)
                    \/ RGe(numeric_prices(i), PRICE_RANGE.max)
         IN  Returned(SetColumn(d, HAS_ABNORMAL_PRICE, Mask(d, {i \in Rows(d) : abnormal_price(i)})))

flag_abnormal_prices(d) ==
    IF ~IsDataFrame(d) THEN Raised(d, "TypeError")
    ELSE LET numeric_prices(i) == to_numeric(d.rows[i]["current_price"])
             abnormal_price(i) ==
                 /\ "current_price" \in d.columns
                 /\ notna(numeric_prices(i))
                 /\ \/ RLt(numeric_prices(i), PRICE_RANGE.min)
                    \/ RGt(numeric_prices(i), PRICE_RANGE.max)
         IN  Returned(SetColumn(d, HAS_ABNORMAL_PRICE, Mask(d, {i \in Rows(d) : abnormal_price(i)})))

flag_invalid_market_cap(d) ==
    IF ~IsDataFrame(d) THEN Raised(d, "TypeError")
    ELSE LET present ==
                 {"market_cap", "current_price", "circulating_supply"} \subseteq d.columns
             numeric_market_cap(i) == to_numeric(d.rows[i]["market_cap"])
             numeric_price(i) == to_numeric(d.rows[i]["current_price"])
             numeric_supply(i) == to_numeric(d.rows[i]["circulating_supply"])
             can_validate(i) ==
                 /\ notna(numeric_market_cap(i))
                 /\ notna(numeric_price(i))
                 /\ notna(numeric_supply(i))
             calculated_market_cap(i) == RMul(numeric_price(i), numeric_supply(i))
             negative_cap(i) == can_validate(i) /\ RLe(numeric_market_cap(i), Zero)
             valid_for_calc(i) == can_validate(i) /\ RGt(numeric_market_cap(i), Zero)
             relative_error(i) ==
                 RDiv(RAbs(RSub(numeric_market_cap(i), calculated_market_cap(i))),
                      numeric_market_cap(i))
             error_too_large(i) ==
                 valid_for_calc(i) /\ ExceedsTolerance(relative_error(i))
             invalid(i) ==
                 /\ present
                 /\ \E k \in 1..len(d) : can_validate(k)
                 /\ (negative_cap(i) \/ error_too_large(i))
         IN  Returned(SetColumn(d, HAS_INVALID_MARKET_CAP, Mask(d, {i \in Rows(d) : invalid(i)})))

\* the test done after numeric parsing of the numeric fields
flag_missing_values_after_parsing(d) ==
    IF ~IsDataFrame(d) THEN Raised(d, "TypeError")
    ELSE LET initialized == SetColumn(d, HAS_MISSING_VALUES, Mask(d, {}))
             value(i, field) ==
                 IF field \in NUMERIC_FIELDS THEN to_numeric(d.rows[i][field])
                 ELSE d.rows[i][field]
             has_missing(i) == \E field \in REQUIRED_FIELDS : isna(value(i, field))
         IN  IF ~(REQUIRED_FIELDS \subseteq d.columns) THEN Raised(initialized, "KeyError")
             ELSE Returned(SetColumn(d, HAS_MISSING_VALUES, Mask(d, {i \in Rows(d) : has_missing(i)})))

\* a rule that fills the missing values it finds
flag_missing_values_fills(d) ==
    IF ~IsDataFrame(d) THEN Raised(d, "TypeError")
    ELSE LET initialized == SetColumn(d, HAS_MISSING_VALUES, Mask(d, {}))
             has_missing(i) == \E field \in REQUIRED_FIELDS : isna(d.rows[i][field])
             filled ==
                 DataFrame(d.columns,
                           [i \in 1..len(d) |->
                               [c \in d.columns |->
                                   IF isna(d.rows[i][c]) THEN Num(0, 1) ELSE d.rows[i][c]]])
         IN  IF ~(REQUIRED_FIELDS \subseteq d.columns) THEN Raised(initialized, "KeyError")
             ELSE Returned(SetColumn(filled, HAS_MISSING_VALUES,
                                     Mask(d, {i \in Rows(d) : has_missing(i)})))

flag_missing_values(d) ==
    IF ~IsDataFrame(d) THEN Raised(d, "TypeError")
    ELSE LET initialized == SetColumn(d, HAS_MISSING_VALUES, Mask(d, {}))
             has_missing(i) == \E field \in REQUIRED_FIELDS : isna(d.rows[i][field])
         IN  \* df[self.REQUIRED_FIELDS] needs every required column
             IF ~(REQUIRED_FIELDS \subseteq d.columns) THEN Raised(initialized, "KeyError")
             ELSE Returned(SetColumn(d, HAS_MISSING_VALUES, Mask(d, {i \in Rows(d) : has_missing(i)})))

\* duplicated(keep=False): every occurrence of a repeated id is marked
flag_duplicates_marks_all(d) ==
    IF ~IsDataFrame(d) THEN Raised(d, "TypeError")
    ELSE LET has_duplicate(i) ==
                 /\ "id" \in d.columns
                 /\ \E j \in Rows(d) \ {i} : d.rows[j]["id"] = d.rows[i]["id"]
         IN  Returned(SetColumn(d, HAS_DUPLICATE, Mask(d, {i \in Rows(d) : has_duplicate(i)})))

\* a rule that leaves out the records already flagged for a missing value
flag_duplicates_among_complete(d) ==
    IF ~IsDataFrame(d) THEN Raised(d, "TypeError")
    ELSE LET incomplete(i) ==
                 /\ HAS_MISSING_VALUES \in d.columns
                 /\ d.rows[i][HAS_MISSING_VALUES] = Flag(TRUE)
             has_duplicate(i) ==
                 /\ "id" \in d.columns
                 /\ ~incomplete(i)
                 /\ \E j \in 1..(i - 1) : d.rows[j]["id"] = d.rows[i]["id"]
         IN  Returned(SetColumn(d, HAS_DUPLICATE, Mask(d, {i \in Rows(d) : has_duplicate(i)})))

\* a rule for which a missing id equals no id
flag_duplicates_skips_missing_ids(d) ==
    IF ~IsDataFrame(d) THEN Raised(d, "TypeError")
    ELSE LET has_duplicate(i) ==
                 /\ "id" \in d.columns
                 /\ notna(d.rows[i]["id"])
                 /\ \E j \in 1..(i - 1) : d.rows[j]["id"] = d.rows[i]["id"]
         IN  Returned(SetColumn(d, HAS_DUPLICATE, Mask(d, {i \in Rows(d) : has_duplicate(i)})))

flag_duplicates(d) ==
    IF ~IsDataFrame(d) THEN Raised(d, "TypeError")
    ELSE LET has_duplicate(i) ==
                 /\ "id" \in d.columns
                 /\ \E j \in 1..(i - 1) : d.rows[j]["id"] = d.rows[i]["id"]
         IN  Returned(SetColumn(d, HAS_DUPLICATE, Mask(d, {i \in Rows(d) : has_duplicate(i)})))

\* a timestamp taken per record: the first record gets the call's time, the
\* others a later one
add_metadata_per_record(d, now) ==
    IF ~IsDataFrame(d) THEN Raised(d, "TypeError")
    ELSE Returned(SetColumn(d, VALIDATED_AT,
                            [i \in 1..len(d) |->
                                IF i = 1 THEN Txt(<<now>>) ELSE Txt(<<now, "later">>)]))

\* now: what datetime.now(ZoneInfo("Asia/Taipei")).isoformat() gives at the call
add_metadata(d, now) ==
    IF ~IsDataFrame(d) THEN Raised(d, "TypeError")
    ELSE Returned(SetColumn(d, VALIDATED_AT, [i \in 1..len(d) |-> Txt(<<now>>)]))

-----------------------------------------------------------------------------
(* Reports: src/src/validators.py 241-381 *)

\* what an operator gives when the call raises instead of returning
Raise(e) == [raise |-> e]
IsRaise(x) == "raise" \in DOMAIN x

\* most example rows attached to a failed item: .head(5)
ExampleLimit == 5

\* the whole sequence, whatever its length
head_unlimited(s, k) == s

head(s, k) == SubSeq(s, 1, IF Len(s) < k THEN Len(s) ELSE k)

\* the percentage cut, not rounded, to 2 decimals
failed_percentage_truncated(failed_count, total_count) ==
    Num((10000 * failed_count) \div total_count, 100)

\* round(failed_count / total_count * 100, 2), in hundredths of a percent: the
\* hundredth nearest to the ratio (for the counts of this model the ratio is
\* never halfway between two hundredths)
failed_percentage(failed_count, total_count) ==
    Num((2 * 10000 * failed_count + total_count) \div (2 * total_count), 100)

CountFlagged_counts_rows(d, flag_column) == len(d)

\* int(df[flag_column].sum())
CountFlagged(d, flag_column) ==
    Cardinality({i \in 1..len(d) : d.rows[i][flag_column].v})

_generate_flag_report(d, flag_column, validation_name, example_columns) ==
    IF flag_column \notin d.columns
    THEN [status |-> SKIPPED, reason |-> "validation_not_run"]
    ELSE LET total_count == len(d)
             failed_count == CountFlagged(d, flag_column)
             flagged_rows == SelectSeq(d.rows, LAMBDA r : r[flag_column].v)
             examples ==
                 head([i \in 1..Len(flagged_rows) |->
                          [c \in example_columns |-> flagged_rows[i][c]]],
                      ExampleLimit)
         IN  IF failed_count = 0
             THEN [status |-> PASSED, total_rows |-> total_count, failed_count |-> 0]
             ELSE IF example_columns = {}
             THEN [status |-> FAILED, total_rows |-> total_count,
                   failed_count |-> failed_count,
                   failed_percentage |-> failed_percentage(failed_count, total_count)]
             ELSE IF ~(example_columns \subseteq d.columns)
             THEN Raise("KeyError")
             ELSE [status |-> FAILED, total_rows |-> total_count,
                   failed_count |-> failed_count,
                   failed_percentage |-> failed_percentage(failed_count, total_count),
                   examples |-> examples]

\* the five rules in the order generate_validation_report reports them
RuleOrder == <<"numeric_types", "price_range", "market_cap", "missing_values", "duplicates">>
RuleNames == {RuleOrder[k] : k \in 1..Len(RuleOrder)}

FlagColumnOf ==
    [numeric_types |-> HAS_NON_NUMERIC_VALUE, price_range |-> HAS_ABNORMAL_PRICE,
     market_cap |-> HAS_INVALID_MARKET_CAP, missing_values |-> HAS_MISSING_VALUES,
     duplicates |-> HAS_DUPLICATE]

ExampleColumnsOf ==
    [numeric_types |-> {"symbol", "name"},
     price_range |-> {"symbol", "name", "current_price"},
     market_cap |-> {"symbol", "name", "market_cap", "current_price", "circulating_supply"},
     missing_values |-> {"symbol", "name"},
     duplicates |-> {"id", "symbol", "name"}]

summarize_executed_counts_skipped(validations) ==
    LET passed == SelectSeq(RuleOrder, LAMBDA k : validations[k].status = PASSED)
        failed == SelectSeq(RuleOrder, LAMBDA k : validations[k].status = FAILED)
        skipped == SelectSeq(RuleOrder, LAMBDA k : validations[k].status = SKIPPED)
    IN  [total |-> Cardinality(DOMAIN validations),
         executed |-> Len(passed) + Len(failed) + Len(skipped),
         passed |-> passed, failed |-> failed, skipped |-> skipped]

\* lines 316-328: the summary of the item reports
summarize(validations) ==
    LET passed == SelectSeq(RuleOrder, LAMBDA k : validations[k].status = PASSED)
        failed == SelectSeq(RuleOrder, LAMBDA k : validations[k].status = FAILED)
        skipped == SelectSeq(RuleOrder, LAMBDA k : validations[k].status = SKIPPED)
    IN  [total |-> Cardinality(DOMAIN validations),
         executed |-> Len(passed) + Len(failed),
         passed |-> passed, failed |-> failed, skipped |-> skipped]

overall_status_skipped_fails(summary) ==
    IF summary.failed # <<>> \/ summary.skipped # <<>> THEN FAILED ELSE PASSED

\* lines 330-334: the overall validation status
overall_status(summary) == IF summary.failed # <<>> THEN FAILED ELSE PASSED

generate_validation_report(d) ==
    IF d = None THEN Raise("TypeError")
    ELSE IF ~IsDataFrame(d) THEN Raise("AttributeError")
    ELSE LET validations ==
                 [k \in RuleNames |->
                     _generate_flag_report(d, FlagColumnOf[k], k, ExampleColumnsOf[k])]
         IN  IF \E k \in RuleNames : IsRaise(validations[k]) THEN Raise("KeyError")
             ELSE [status |-> overall_status(summarize(validations)),
                   stage |-> "data_validation",
                   total_rows |-> len(d),
                   validations |-> validations,
                   summary |-> summarize(validations)]

\* the table without its entry for MISSING_REQUIRED_FIELDS
error_messages_two_entries(status) ==
    CASE status = EMPTY_DATA -> "DataFrame is empty or None"
      [] status = INVALID_TYPE -> "Input is not a valid DataFrame"
      [] OTHER -> "Unknown schema error"

error_messages(status) ==
    CASE status = EMPTY_DATA -> "DataFrame is empty or None"
      [] status = INVALID_TYPE -> "Input is not a valid DataFrame"
      [] status = MISSING_REQUIRED_FIELDS -> "Missing required fields"
      [] OTHER -> "Unknown schema error"

\* A member of SchemaValidationStatus is written as its value; any other text
\* stands for an object that is no member (a plain string, None), on which
\* status.value raises AttributeError.
generate_schema_error_report(status) ==
    IF status \notin SchemaValidationStatus THEN Raise("AttributeError")
    ELSE [status |-> FAILED,
          stage |-> "schema_validation",
          error |-> status,
          error_message |-> error_messages(status),
          validations |-> <<>>,
          summary |-> [passed |-> <<>>, failed |-> <<"schema_validation">>]]

-----------------------------------------------------------------------------
(* Inputs: records of the shapes the tests feed the validator *)

Word(w) == Txt(<<w>>)

Record(id, symbol, current_price, market_cap, circulating_supply, high_24h) ==
    [id |-> id, symbol |-> symbol, name |-> Word("Coin"),
     current_price |-> current_price, market_cap |-> market_cap,
     total_volume |-> Num(30000, 1), circulating_supply |-> circulating_supply,
     high_24h |-> high_24h]

AllColumns == REQUIRED_FIELDS \cup {"high_24h"}

\* a clean record; a record repeating its id with a non-numeric price; a record
\* with a negative price and a market cap 10% off; a record with a missing id,
\* a price held as the text "100" and a zero market cap; a record with a
\* missing symbol, a missing supply and a non-numeric high
SessionRecords ==
    { Record(Word("bitcoin"), Word("btc"), Num(100, 1), Num(104000000, 1),
             Num(1000000, 1), Num(101, 1)),
      Record(Word("bitcoin"), Word("btc"), Word("invalid"), Num(100000000, 1),
             Num(1000000, 1), NaN),
      Record(Word("ethereum"), Word("eth"), Num(0 - 100, 1), Num(110000000, 1),
             Num(1000000, 1), Num(1, 1)),
      Record(NaN, Word("ada"), Txt(<<"1", "0", "0">>), Num(0, 1),
             Num(1000000, 1), Num(1, 1)),
      Record(Word("cardano"), NaN, Num(100, 1), Num(100000000, 1),
             NaN, Word("n/a")) }

RECURSIVE SeqsUpTo(_, _)
SeqsUpTo(S, k) ==
    IF k = 0 THEN {<<>>}
    ELSE LET shorter == SeqsUpTo(S, k - 1)
         IN  shorter \cup {Append(q, x) : q \in {t \in shorter : Len(t) = k - 1}, x \in S}

\* the batch holding the given records under the given columns
Batch(cols, records) ==
    DataFrame(cols, [i \in 1..Len(records) |-> [c \in cols |-> records[i][c]]])

Batches(colsets, records, k) ==
    {Batch(cols, q) : cols \in colsets, q \in SeqsUpTo(records, k)}

SessionColumnSets ==
    { AllColumns, REQUIRED_FIELDS, REQUIRED_FIELDS \ {"circulating_supply"},
      {"id", "current_price"}, {} }

SessionInputs ==
    {None, NotADataFrame} \cup Batches(SessionColumnSets, SessionRecords, MaxRows)

SchemaInputs ==
    {None, NotADataFrame} \cup Batches(SUBSET AllColumns, SessionRecords, MaxRows)

\* the values datetime.now().isoformat() takes in a session
Timestamps == {"2026-01-21T08:00:00+08:00", "2026-01-21T08:00:01+08:00"}

-----------------------------------------------------------------------------
(* A session of calls on one validator and one batch *)

Tasks == {"fetch_coingecko_data", "check_schema", "run_full_validation",
          "generate_quality_report", "handle_schema_failure", "generate_error_report",
          "notify_validation_complete", "notify_schema_failure", "end"}

NoReport == [stage |-> "none"]
NotRaised == [exc |-> "none", by |-> "none"]
NoFile == [kind |-> "absent"]
Absent == "absent"
NoXCom ==
    [raw_file_path |-> Absent, record_count |-> Absent, schema_result |-> Absent,
     error_message |-> Absent, flagged_data_path |-> Absent,
     validation_stats |-> Absent, report_file_path |-> Absent,
     quality_report |-> NoReport, error_report_file_path |-> Absent,
     schema_error_report |-> NoReport]

\* a validator instance has no attribute of its own; no caller shares one; no
\* API call was made
NoAttributes == <<>>
NoCallers == <<>>
NoCall == [stage |-> "none"]

Idle ==
    /\ validator = NoAttributes
    /\ callers = NoCallers
    /\ api = NoCall

idle_vars == <<validator, callers, api>>

NoDagRun ==
    /\ ti = [t \in Tasks |-> "none"]
    /\ try_number = [t \in Tasks |-> 0]
    /\ xcom = NoXCom
    /\ raw_file = NoFile
    /\ flagged_file = NoFile
    /\ notification = "none"

NoRun == NoDagRun /\ Idle

run_vars == <<ti, try_number, xcom, raw_file, flagged_file, notification, idle_vars>>

InitSession(inputs) ==
    /\ df \in inputs
    /\ schema_result = "none"
    /\ raised = NotRaised
    /\ report = NoReport
    /\ NoRun

\* the session goes on until a call raises or the report is built
Running == raised = NotRaised /\ report = NoReport

ValidateSchema ==
    /\ Running
    /\ schema_result' = validate_schema(df)
    /\ UNCHANGED <<df, raised, report, run_vars>>

\* a call of a flag rule: the batch is mutated in place, the exception propagates
Apply(result, method) ==
    /\ Running
    /\ df' = result.df
    /\ raised' = IF result.exc = "none" THEN NotRaised
                 ELSE [exc |-> result.exc, by |-> method]
    /\ UNCHANGED <<schema_result, report, run_vars>>

FlagInvalidNumericTypes == Apply(flag_invalid_numeric_types(df), "flag_invalid_numeric_types")
FlagAbnormalPrices == Apply(flag_abnormal_prices(df), "flag_abnormal_prices")
FlagInvalidMarketCap == Apply(flag_invalid_market_cap(df), "flag_invalid_market_cap")
FlagMissingValues == Apply(flag_missing_values(df), "flag_missing_values")
FlagDuplicates == Apply(flag_duplicates(df), "flag_duplicates")
AddMetadata == \E now \in Timestamps : Apply(add_metadata(df, now), "add_metadata")

GenerateValidationReport ==
    /\ Running
    /\ LET r == generate_validation_report(df)
       IN  IF IsRaise(r)
           THEN /\ raised' = [exc |-> r.raise, by |-> "generate_validation_report"]
                /\ report' = report
           ELSE /\ report' = r
                /\ raised' = raised
    /\ UNCHANGED <<df, schema_result, run_vars>>

\* what a caller can hand to generate_schema_error_report: the four members,
\* and objects that are no member (a plain string, None)
StatusInputs == SchemaValidationStatus \cup {"unknown_code", "None"}

GenerateSchemaErrorReport ==
    /\ Running
    /\ \E status \in StatusInputs :
           LET r == generate_schema_error_report(status)
           IN  IF IsRaise(r)
               THEN /\ raised' = [exc |-> r.raise, by |-> "generate_schema_error_report"]
                    /\ report' = report
               ELSE /\ report' = r
                    /\ raised' = raised
    /\ UNCHANGED <<df, schema_result, run_vars>>

Init == InitSession(SessionInputs)

Next ==
    \/ ValidateSchema
    \/ FlagInvalidNumericTypes
    \/ FlagAbnormalPrices
    \/ FlagInvalidMarketCap
    \/ FlagMissingValues
    \/ FlagDuplicates
    \/ AddMetadata
    \/ GenerateValidationReport

Spec == Init /\ [][Next]_vars

\* the schema gate and the schema error report, on every shape of input
InitSchema == InitSession(SchemaInputs)
NextSchema ==
    \/ ValidateSchema
    \/ GenerateSchemaErrorReport
SpecSchema == InitSchema /\ [][NextSchema]_vars

-----------------------------------------------------------------------------
(* Claims on the schema gate, checked under SpecSchema *)

Gated == schema_result # "none"
IsTable == df.kind = "DataFrame"
LacksRequiredColumn == \E f \in REQUIRED_FIELDS : f \notin df.columns

\* C1, as stated: validate_schema decides in the fixed order None -> EMPTY_DATA,
\* not a table -> INVALID_TYPE, zero records -> EMPTY_DATA, a required name
\* absent -> MISSING_REQUIRED_FIELDS, otherwise VALID.
C1_OrderAsStated ==
    Gated =>
        schema_result =
            IF df = None THEN EMPTY_DATA
            ELSE IF ~IsTable THEN INVALID_TYPE
            ELSE IF Len(df.rows) = 0 THEN EMPTY_DATA
            ELSE IF LacksRequiredColumn THEN MISSING_REQUIRED_FIELDS
            ELSE VALID

\* C1, amended: the third condition is a table with zero records or zero
\* columns (DataFrame.empty); a table with records and no column at all gives
\* EMPTY_DATA, not MISSING_REQUIRED_FIELDS.  The order is otherwise as stated.
C1_FixedOrder ==
    Gated =>
        schema_result =
            IF df = None THEN EMPTY_DATA
            ELSE IF ~IsTable THEN INVALID_TYPE
            ELSE IF Len(df.rows) = 0 \/ df.columns = {} THEN EMPTY_DATA
            ELSE IF LacksRequiredColumn THEN MISSING_REQUIRED_FIELDS
            ELSE VALID

\* the first failing condition wins: a zero-row table that also lacks required
\* columns was gated and got EMPTY_DATA
C1_Witness ==
    /\ Gated /\ IsTable
    /\ Len(df.rows) = 0 /\ LacksRequiredColumn
    /\ schema_result = EMPTY_DATA

\* C2: a batch with at least one record and all 7 required names as columns is
\* VALID whatever its cells hold, missing values included.
C2_ColumnPresenceSuffices ==
    (Gated /\ IsTable /\ Len(df.rows) >= 1 /\ REQUIRED_FIELDS \subseteq df.columns)
        => schema_result = VALID

\* a gated batch with all required columns and a missing required value
C2_Witness ==
    /\ Gated /\ IsTable /\ REQUIRED_FIELDS \subseteq df.columns
    /\ \E i \in 1..Len(df.rows) : \E f \in REQUIRED_FIELDS : df.rows[i][f] = NaN
    /\ schema_result = VALID

\* C3, as stated: EMPTY_DATA for an absent batch and for a zero-row batch, and
\* MISSING_REQUIRED_FIELDS if and only if a required name is absent as a column.
C3_MissingIffAsStated ==
    Gated =>
        /\ (df = None \/ (IsTable /\ Len(df.rows) = 0)) => schema_result = EMPTY_DATA
        /\ schema_result = MISSING_REQUIRED_FIELDS <=> (IsTable /\ LacksRequiredColumn)

\* C3, amended: MISSING_REQUIRED_FIELDS if and only if the batch is a table
\* with at least one record and at least one column that lacks a required name
\* (an empty table lacking required columns is EMPTY_DATA).
C3_MissingIff ==
    Gated =>
        /\ (df = None \/ (IsTable /\ Len(df.rows) = 0)) => schema_result = EMPTY_DATA
        /\ schema_result = MISSING_REQUIRED_FIELDS
              <=> (IsTable /\ Len(df.rows) >= 1 /\ df.columns # {} /\ LacksRequiredColumn)

\* a gated batch with records that lacks exactly one required column
C3_Witness ==
    /\ Gated /\ IsTable /\ Len(df.rows) >= 1
    /\ REQUIRED_FIELDS \ df.columns = {"total_volume"}
    /\ schema_result = MISSING_REQUIRED_FIELDS

\* C4: a call of validate_schema returns one of the four status codes, raises
\* nothing and leaves the batch as it was, whatever the input.
C4_TotalAndPure ==
    [][ValidateSchema =>
          /\ schema_result' \in SchemaValidationStatus
          /\ raised' = NotRaised
          /\ df' = df]_vars

\* the gate has answered on a wrong-shaped input
C4_Witness == df = NotADataFrame /\ schema_result = INVALID_TYPE /\ raised = NotRaised

IsSchemaErrorReport == report.stage = "schema_validation"

SchemaErrorReportOf(code, message) ==
    [status |-> "failed", stage |-> "schema_validation", error |-> code,
     error_message |-> message, validations |-> <<>>,
     summary |-> [passed |-> <<>>, failed |-> <<"schema_validation">>]]

-----------------------------------------------------------------------------
(* Claims on the rules and the report, checked under Spec *)

IsValidationReport == report.stage = "data_validation"
Flagged(col) == {i \in 1..Len(df.rows) : df.rows[i][col] = Flag(TRUE)}

\* a cell that holds no number: missing, or a text that is not a number
Unparseable(c) == c.kind = "nan" \/ (c.kind = "str" /\ ~IsNumericText(c.chars))

\* C6: on a batch the gate found VALID no call raises, whatever the cells hold:
\* the five rules, add_metadata and generate_validation_report all return, and
\* a record whose price (or market-cap input) is missing or not a number gets
\* the default flag, false, from the price rule (the market-cap rule).
C6_NoRaiseOnGatedBatch ==
    schema_result = VALID =>
        /\ raised = NotRaised
        /\ \A i \in 1..Len(df.rows) :
              /\ (HAS_ABNORMAL_PRICE \in df.columns
                    /\ Unparseable(df.rows[i]["current_price"]))
                     => df.rows[i][HAS_ABNORMAL_PRICE] = Flag(FALSE)
              /\ (HAS_INVALID_MARKET_CAP \in df.columns
                    /\ \E f \in {"market_cap", "current_price", "circulating_supply"} :
                           Unparseable(df.rows[i][f]))
                     => df.rows[i][HAS_INVALID_MARKET_CAP] = Flag(FALSE)

\* a gated batch with a non-numeric price and a missing supply went through the
\* five rules, add_metadata and the report
C6_Witness ==
    /\ schema_result = VALID
    /\ FlagFields \cup {VALIDATED_AT} \subseteq df.columns
    /\ IsValidationReport
    /\ \E i \in 1..Len(df.rows) : df.rows[i]["current_price"] = Word("invalid")
    /\ \E i \in 1..Len(df.rows) : df.rows[i]["circulating_supply"] = NaN

\* C7: the overall status is FAILED if and only if summary.failed is not empty,
\* that is if and only if some rule item is FAILED; otherwise it is PASSED,
\* also when rules are SKIPPED.
C7_OverallStatus ==
    IsValidationReport =>
        /\ report.status \in {PASSED, FAILED}
        /\ report.status = FAILED <=> report.summary.failed # <<>>
        /\ report.status = FAILED
              <=> \E k \in RuleNames : report.validations[k].status = FAILED

\* a report that is PASSED although rules were skipped
C7_Witness ==
    /\ IsValidationReport
    /\ report.status = PASSED
    /\ report.summary.skipped # <<>>
    /\ report.summary.passed # <<>>

\* C8: a rule's item is SKIPPED with reason "validation_not_run" exactly when
\* its flag column is absent, PASSED with failed_count 0 exactly when the column
\* is present and flags no record, FAILED with failed_count the number of
\* flagged records otherwise; PASSED and FAILED items carry the batch size.
C8_ItemReports ==
    IsValidationReport =>
        \A k \in RuleNames :
            LET item == report.validations[k]
                col == FlagColumnOf[k]
            IN  /\ item.status \in ValidationStatus
                /\ item.status = SKIPPED <=> col \notin df.columns
                /\ item.status = SKIPPED
                      => item = [status |-> SKIPPED, reason |-> "validation_not_run"]
                /\ item.status = PASSED
                      <=> (col \in df.columns /\ Flagged(col) = {})
                /\ item.status = PASSED
                      => item = [status |-> PASSED, total_rows |-> Len(df.rows),
                                 failed_count |-> 0]
                /\ item.status = FAILED
                      => /\ item.failed_count = Cardinality(Flagged(col))
                         /\ item.failed_count > 0
                         /\ item.total_rows = Len(df.rows)

\* one report with a skipped, a passed and a failed item
C8_Witness ==
    /\ IsValidationReport
    /\ report.validations["numeric_types"].status = SKIPPED
    /\ report.validations["price_range"].status = PASSED
    /\ report.validations["duplicates"].status = FAILED
    /\ report.validations["duplicates"].failed_count = 1

\* C9: validations has exactly the five rule names as keys, summary.total is 5,
\* the passed, failed and skipped lists are pairwise disjoint, hold each rule
\* name exactly once between them, each in the list of its item's status, and
\* summary.executed = |passed| + |failed| = 5 - |skipped|.
C9_Summary ==
    IsValidationReport =>
        LET sm == report.summary
            Names(q) == {q[i] : i \in 1..Len(q)}
        IN  /\ DOMAIN report.validations =
                   {"numeric_types", "price_range", "market_cap", "missing_values",
                    "duplicates"}
            /\ sm.total = 5
            /\ Names(sm.passed) \cap Names(sm.failed) = {}
            /\ Names(sm.passed) \cap Names(sm.skipped) = {}
            /\ Names(sm.failed) \cap Names(sm.skipped) = {}
            /\ Len(sm.passed) + Len(sm.failed) + Len(sm.skipped) = 5
            /\ Names(sm.passed) \cup Names(sm.failed) \cup Names(sm.skipped)
                   = DOMAIN report.validations
            /\ \A k \in DOMAIN report.validations :
                   /\ k \in Names(sm.passed) <=> report.validations[k].status = PASSED
                   /\ k \in Names(sm.failed) <=> report.validations[k].status = FAILED
                   /\ k \in Names(sm.skipped) <=> report.validations[k].status = SKIPPED
            /\ sm.executed = Len(sm.passed) + Len(sm.failed)
            /\ sm.executed = 5 - Len(sm.skipped)

\* a report with two rules skipped, at least one failed and at least one passed
C9_Witness ==
    /\ IsValidationReport
    /\ Len(report.summary.skipped) = 2
    /\ report.summary.executed = 3
    /\ report.summary.failed # <<>>
    /\ report.summary.passed # <<>>

\* a cell that holds a value, and the value is not a number
NonNumericText(c) == c.kind = "str" /\ ~IsNumericText(c.chars)

\* C14: the numeric-type rule flags a record exactly when one at least of the
\* 13 numeric fields that are columns of the batch holds, for that record, a
\* value that is present and does not parse as a number; a missing value never
\* causes a flag, a text that parses does not either, and numeric fields that
\* are not columns are ignored.
C14_NumericTypes ==
    (IsTable /\ HAS_NON_NUMERIC_VALUE \in df.columns) =>
        \A i \in 1..Len(df.rows) :
            LET r == df.rows[i]
                fields ==
                    {"current_price", "market_cap", "market_cap_rank", "total_volume",
                     "high_24h", "low_24h", "price_change_24h",
                     "price_change_percentage_24h", "market_cap_change_24h",
                     "market_cap_change_percentage_24h", "circulating_supply",
                     "total_supply", "max_supply"} \cap df.columns
            IN  /\ r[HAS_NON_NUMERIC_VALUE] \in {Flag(TRUE), Flag(FALSE)}
                /\ r[HAS_NON_NUMERIC_VALUE] = Flag(TRUE)
                      <=> \E f \in fields : NonNumericText(r[f])

\* the rule ran on a batch with the high_24h column: a record whose only
\* non-numeric value is its high is flagged, a record with a missing id and its
\* price held as the text "100" is not
C14_Witness ==
    /\ IsTable
    /\ {HAS_NON_NUMERIC_VALUE, "high_24h", "current_price"} \subseteq df.columns
    /\ Len(df.rows) = 2
    /\ df.rows[1]["high_24h"] = Word("n/a")
    /\ df.rows[1]["current_price"] = Num(100, 1)
    /\ df.rows[1]["circulating_supply"] = NaN
    /\ df.rows[1][HAS_NON_NUMERIC_VALUE] = Flag(TRUE)
    /\ df.rows[2]["current_price"] = Txt(<<"1", "0", "0">>)
    /\ df.rows[2]["id"] = NaN
    /\ df.rows[2][HAS_NON_NUMERIC_VALUE] = Flag(FALSE)

\* C15: once the missing-values rule has returned, a record is flagged exactly
\* when one at least of its 7 required fields holds a missing value; the test
\* is on the raw value, so a text that is not a number in a required numeric
\* field is present and sets no flag, and a missing value in a field that is
\* not required sets none either.
C15_MissingValues ==
    (IsTable /\ HAS_MISSING_VALUES \in df.columns
        /\ raised.by # "flag_missing_values") =>
        /\ {"id", "symbol", "name", "current_price", "market_cap", "total_volume",
            "circulating_supply"} \subseteq df.columns
        /\ \A i \in 1..Len(df.rows) :
              LET r == df.rows[i]
              IN  /\ r[HAS_MISSING_VALUES] \in {Flag(TRUE), Flag(FALSE)}
                  /\ r[HAS_MISSING_VALUES] = Flag(TRUE)
                        <=> \E f \in {"id", "symbol", "name", "current_price",
                                      "market_cap", "total_volume",
                                      "circulating_supply"} : r[f] = NaN
                  /\ (NonNumericText(r["current_price"])
                        /\ \A f \in REQUIRED_FIELDS : r[f] # NaN)
                       => r[HAS_MISSING_VALUES] = Flag(FALSE)

\* the rule returned on a batch with the high_24h column: the record with the
\* non-numeric price and a missing high is not flagged, the record with a
\* missing symbol is
C15_Witness ==
    /\ IsTable
    /\ {HAS_MISSING_VALUES, "high_24h"} \subseteq df.columns
    /\ raised = NotRaised
    /\ Len(df.rows) = 2
    /\ df.rows[1]["current_price"] = Word("invalid")
    /\ df.rows[1]["high_24h"] = NaN
    /\ df.rows[1][HAS_MISSING_VALUES] = Flag(FALSE)
    /\ df.rows[2]["symbol"] = NaN
    /\ df.rows[2][HAS_MISSING_VALUES] = Flag(TRUE)

SixColumns == {"has_non_numeric_value", "has_abnormal_price", "has_invalid_market_cap",
               "has_missing_values", "has_duplicate", "validated_at"}

C28_ToleratesAbsentColumnsAsStated ==
    IsTable =>
        /\ raised = NotRaised
              \/ raised.by \notin {"flag_invalid_numeric_types", "flag_abnormal_prices",
                                   "flag_invalid_market_cap", "flag_missing_values",
                                   "flag_duplicates"}
        /\ \A col \in FlagFields \cap df.columns :
              \A i \in 1..Len(df.rows) : df.rows[i][col] \in {Flag(TRUE), Flag(FALSE)}

-----------------------------------------------------------------------------
(* The market-cap rule on its own inputs *)

CapRecord(current_price, market_cap, circulating_supply) ==
    Record(Word("bitcoin"), Word("btc"), current_price, market_cap,
           circulating_supply, NaN)

\* price 100 and supply 1,000,000 against market caps with no error, 3.8% and
\* 9.1% error, zero, negative, missing and non-numeric; price 105 against
\* 100,000,000 (an error of exactly 5%); the price held as the text "100"; and
\* records with one input missing or non-numeric
MarketCapRecords ==
    { CapRecord(Num(100, 1), Num(100000000, 1), Num(1000000, 1)),
      CapRecord(Num(100, 1), Num(104000000, 1), Num(1000000, 1)),
      CapRecord(Num(100, 1), Num(110000000, 1), Num(1000000, 1)),
      CapRecord(Num(100, 1), Num(0, 1), Num(1000000, 1)),
      CapRecord(Num(100, 1), Num(0 - 100000000, 1), Num(1000000, 1)),
      CapRecord(Num(100, 1), NaN, Num(1000000, 1)),
      CapRecord(Num(100, 1), Word("invalid"), Num(1000000, 1)),
      CapRecord(Num(105, 1), Num(100000000, 1), Num(1000000, 1)),
      CapRecord(Txt(<<"1", "0", "0">>), Num(110000000, 1), Num(1000000, 1)),
      CapRecord(Word("invalid"), Num(110000000, 1), Num(1000000, 1)),
      CapRecord(NaN, Num(0, 1), Num(1000000, 1)),
      CapRecord(Num(100, 1), Num(0 - 100000000, 1), NaN),
      CapRecord(Num(100, 1), Num(110000000, 1), Word("invalid")),
      \* non-positive market caps that agree with price * supply
      CapRecord(Num(0, 1), Num(0, 1), Num(0, 1)),
      CapRecord(Num(0 - 1, 1), Num(0 - 100, 1), Num(100, 1)) }

MarketCapColumnSets ==
    { REQUIRED_FIELDS,
      REQUIRED_FIELDS \ {"market_cap"},
      REQUIRED_FIELDS \ {"current_price"},
      REQUIRED_FIELDS \ {"circulating_supply"} }

MarketCapInputs == Batches(MarketCapColumnSets, MarketCapRecords, MaxCapRows)

InitMarketCap == InitSession(MarketCapInputs)
NextMarketCap == FlagInvalidMarketCap
SpecMarketCap == InitMarketCap /\ [][NextMarketCap]_vars

\* the number a cell of these inputs parses to (they are whole numbers)
Value(c) == to_numeric(c).n
Magnitude(x) == IF x < 0 THEN 0 - x ELSE x

CapInputs == {"market_cap", "current_price", "circulating_supply"}

\* the record's market cap parses to a number that is zero or negative
NonPositiveCap(r) ==
    /\ "market_cap" \in DOMAIN r
    /\ ~Unparseable(r["market_cap"])
    /\ Value(r["market_cap"]) <= 0

\* C11 as stated: every record whose market_cap is <= 0 is flagged by the
\* market-cap rule, whatever its current_price and circulating_supply hold.
C11_NonPositiveCapAsStated ==
    HAS_INVALID_MARKET_CAP \in df.columns =>
        \A i \in 1..Len(df.rows) :
            NonPositiveCap(df.rows[i])
                => df.rows[i][HAS_INVALID_MARKET_CAP] = Flag(TRUE)

\* C11: a record whose market_cap is <= 0 is flagged by the market-cap rule
\* whenever its current_price and circulating_supply parse to numbers, whatever
\* those numbers are (also when market_cap = price * supply); it is not flagged
\* when its price or its supply is missing or unparseable, or when one of the
\* three columns is absent.
C11_NonPositiveCap ==
    HAS_INVALID_MARKET_CAP \in df.columns =>
        \A i \in 1..Len(df.rows) :
            LET r == df.rows[i]
                judged ==
                    /\ CapInputs \subseteq df.columns
                    /\ \A f \in {"current_price", "circulating_supply"} :
                           ~Unparseable(r[f])
            IN  NonPositiveCap(r) =>
                    (r[HAS_INVALID_MARKET_CAP] = Flag(TRUE) <=> judged)

\* the rule flagged a zero and a negative market cap that both equal
\* price * supply
C11_Witness ==
    /\ HAS_INVALID_MARKET_CAP \in df.columns
    /\ CapInputs \subseteq df.columns
    /\ Len(df.rows) = 2
    /\ df.rows[1]["market_cap"] = Num(0, 1)
    /\ df.rows[1]["current_price"] = Num(0, 1)
    /\ df.rows[1][HAS_INVALID_MARKET_CAP] = Flag(TRUE)
    /\ df.rows[2]["market_cap"] = Num(0 - 100, 1)
    /\ df.rows[2]["current_price"] = Num(0 - 1, 1)
    /\ df.rows[2][HAS_INVALID_MARKET_CAP] = Flag(TRUE)

\* C12 as stated: 5% is the largest relative error allowed; a record with a
\* positive market_cap and numeric inputs is flagged only when
\* |market_cap - price * supply| / market_cap exceeds 5%, so a record whose
\* error is at most 5%, exactly 5% included, is not flagged.
C12_ToleranceAsStated ==
    (HAS_INVALID_MARKET_CAP \in df.columns /\ CapInputs \subseteq df.columns) =>
        \A i \in 1..Len(df.rows) :
            LET r == df.rows[i]
                cap == Value(r["market_cap"])
                expected == Value(r["current_price"]) * Value(r["circulating_supply"])
            IN  ((\A f \in CapInputs : ~Unparseable(r[f])) /\ cap > 0) =>
                    (r[HAS_INVALID_MARKET_CAP] = Flag(TRUE)
                        => 20 * Magnitude(cap - expected) > cap)

-----------------------------------------------------------------------------
(* The price rule on its own inputs *)

\* most records in a batch of the price rule's sessions
MaxPriceRows == 2

PriceRecord(current_price) ==
    Record(Word("bitcoin"), Word("btc"), current_price, Num(100000000, 1),
           Num(1000000, 1), NaN)

\* the two bounds 0.000001 and 1000000; 0.0000001 and 2000000 (the tests' too
\* low and too high); 1000001; zero; a negative price; a price in range; a
\* missing price; the texts "invalid", "100" and "-1"
PriceRecords ==
    { PriceRecord(Num(1, 1000000)),
      PriceRecord(Num(1000000, 1)),
      PriceRecord(Num(1, 10000000)),
      PriceRecord(Num(2000000, 1)),
      PriceRecord(Num(1000001, 1)),
      PriceRecord(Num(0, 1)),
      PriceRecord(Num(0 - 100, 1)),
      PriceRecord(Num(45000, 1)),
      PriceRecord(NaN),
      PriceRecord(Word("invalid")),
      PriceRecord(Txt(<<"1", "0", "0">>)),
      PriceRecord(Txt(<<"-", "1">>)) }

PriceColumnSets == {REQUIRED_FIELDS, REQUIRED_FIELDS \ {"current_price"}}

PriceInputs == Batches(PriceColumnSets, PriceRecords, MaxPriceRows)

InitPrice == InitSession(PriceInputs)
NextPrice == FlagAbnormalPrices
SpecPrice == InitPrice /\ [][NextPrice]_vars

\* x < 0.000001 and x > 1000000 for a numeric cell x = n/d, d > 0
BelowMillionth(x) == x.n <= 0 \/ (x.n < x.d /\ x.n * 1000000 < x.d)
AboveMillion(x) ==
    \/ x.n \div x.d > 1000000
    \/ (x.n \div x.d = 1000000 /\ x.n % x.d > 0)

-----------------------------------------------------------------------------
(* The duplicate rule on its own inputs *)

\* most records in a batch of the duplicate rule's sessions
MaxDupRows == 3

DupRecord(id, symbol) ==
    Record(id, symbol, Num(100, 1), Num(100000000, 1), Num(1000000, 1), NaN)

\* two records with the same id and different symbols, a record with another
\* id, and a record with a missing id
DupRecords ==
    { DupRecord(Word("bitcoin"), Word("btc")),
      DupRecord(Word("bitcoin"), Word("xbt")),
      DupRecord(Word("ethereum"), Word("eth")),
      DupRecord(NaN, Word("ada")) }

DupColumnSets == {REQUIRED_FIELDS, REQUIRED_FIELDS \ {"id"}}

DupInputs == Batches(DupColumnSets, DupRecords, MaxDupRows)

InitDuplicates == InitSession(DupInputs)
NextDuplicates == FlagDuplicates
SpecDuplicates == InitDuplicates /\ [][NextDuplicates]_vars

\* C16: the duplicate rule flags a record exactly when an earlier record of the
\* batch, in batch order, has the same id value: the first occurrence of an id
\* is never flagged, every later occurrence is (ids [A, A, B] give
\* [false, true, false]), and every flag is false when the id column is absent.
C16_Duplicates ==
    HAS_DUPLICATE \in df.columns =>
        /\ \A i \in 1..Len(df.rows) :
              LET r == df.rows[i]
                  flagged == r[HAS_DUPLICATE] = Flag(TRUE)
              IN  /\ r[HAS_DUPLICATE] \in {Flag(TRUE), Flag(FALSE)}
                  /\ "id" \notin df.columns => ~flagged
                  /\ "id" \in df.columns =>
                       /\ flagged <=> \E j \in 1..(i - 1) : df.rows[j]["id"] = r["id"]
                       /\ (\A j \in 1..(i - 1) : df.rows[j]["id"] # r["id"]) => ~flagged
        /\ ("id" \in df.columns /\ Len(df.rows) = 3
              /\ df.rows[1]["id"] = df.rows[2]["id"]
              /\ df.rows[3]["id"] # df.rows[1]["id"])
             => /\ df.rows[1][HAS_DUPLICATE] = Flag(FALSE)
                /\ df.rows[2][HAS_DUPLICATE] = Flag(TRUE)
                /\ df.rows[3][HAS_DUPLICATE] = Flag(FALSE)

\* the rule ran on the ids [bitcoin, bitcoin, ethereum] and flagged the second
\* record only
C16_Witness ==
    /\ HAS_DUPLICATE \in df.columns
    /\ "id" \in df.columns
    /\ Len(df.rows) = 3
    /\ df.rows[1]["id"] = Word("bitcoin")
    /\ df.rows[2]["id"] = Word("bitcoin")
    /\ df.rows[3]["id"] = Word("ethereum")
    /\ df.rows[1][HAS_DUPLICATE] = Flag(FALSE)
    /\ df.rows[2][HAS_DUPLICATE] = Flag(TRUE)
    /\ df.rows[3][HAS_DUPLICATE] = Flag(FALSE)

\* C30: a missing id is compared like any other id value: a record with a
\* missing id is flagged has_duplicate exactly when an earlier record of the
\* batch has a missing id too, so the first record with a missing id is not
\* flagged, each later one is, and a single missing id gets no flag.
C30_MissingIds ==
    ("has_duplicate" \in df.columns /\ "id" \in df.columns) =>
        LET missing == {i \in 1..Len(df.rows) : df.rows[i]["id"].kind = "nan"}
        IN  /\ \A i \in missing :
                  df.rows[i]["has_duplicate"] = Flag(\E j \in missing : j < i)
            /\ Cardinality(missing) = 1 =>
                  \A i \in missing : df.rows[i]["has_duplicate"] = Flag(FALSE)

\* the rule ran on three records, the first and the
\* last with a missing id, the second with the id bitcoin: only the last record
\* is flagged
C30_Witness ==
    /\ HAS_DUPLICATE \in df.columns
    /\ "id" \in df.columns
    /\ Len(df.rows) = 3
    /\ df.rows[1]["id"] = NaN
    /\ df.rows[2]["id"] = Word("bitcoin")
    /\ df.rows[3]["id"] = NaN
    /\ df.rows[1][HAS_DUPLICATE] = Flag(FALSE)
    /\ df.rows[2][HAS_DUPLICATE] = Flag(FALSE)
    /\ df.rows[3][HAS_DUPLICATE] = Flag(TRUE)

-----------------------------------------------------------------------------
(* The report on batches that carry their flag columns *)

\* most records in a flagged batch of the report's sessions
MaxReportRows == 6

\* the records of the one large batch of the report's sessions
LargeBatchRows == 20001

ReportColumns ==
    {"id", "symbol", "name", "current_price", "market_cap", "circulating_supply"}
        \cup FlagFields

\* a record of the coin with the given symbol, flagged by the given rules
ReportRecord(symbol, failed) ==
    [c \in ReportColumns |->
        CASE c \in FlagFields -> Flag(c \in failed)
          [] c \in {"id", "symbol"} -> Word(symbol)
          [] c = "name" -> Word("Coin")
          [] c = "current_price" -> Num(100, 1)
          [] c = "market_cap" -> Num(100000000, 1)
          [] OTHER -> Num(1000000, 1)]

\* a record no rule flagged, a record flagged by the price and the duplicate
\* rules, a record flagged by the five rules
ReportRecords ==
    { ReportRecord("btc", {}),
      ReportRecord("eth", {HAS_ABNORMAL_PRICE, HAS_DUPLICATE}),
      ReportRecord("ada", FlagFields) }

\* a batch on which the missing-values rule flagged the first record only
LargeBatch ==
    DataFrame({"symbol", "name", HAS_MISSING_VALUES},
              [i \in 1..LargeBatchRows |->
                  [c \in {"symbol", "name", HAS_MISSING_VALUES} |->
                      CASE c = "symbol" -> Word(IF i = 1 THEN "ada" ELSE "btc")
                        [] c = "name" -> Word("Coin")
                        [] OTHER -> Flag(i = 1)]])

ReportInputs ==
    Batches({ReportColumns}, ReportRecords, MaxReportRows) \cup {LargeBatch}

InitReport == InitSession(ReportInputs)
NextReport == GenerateValidationReport
SpecReport == InitReport /\ [][NextReport]_vars

FailedItems ==
    {k \in {"numeric_types", "price_range", "market_cap", "missing_values", "duplicates"} :
        report.validations[k].status = "failed"}

\* h is the whole number nearest to 10000 * f / t
NearestHundredth(h, f, t) == 2 * Magnitude(h * t - 10000 * f) <= t

\* C19 as stated: for every FAILED item, failed_percentage is
\* 100 * failed_count / total_rows rounded to 2 decimals (1 of 3 gives 33.33),
\* and so is greater than 0 and at most 100.
C19_PercentageAsStated ==
    IsValidationReport =>
        \A k \in FailedItems :
            LET item == report.validations[k]
                h == item.failed_percentage.n
            IN  /\ item.failed_percentage.d = 100
                /\ NearestHundredth(h, item.failed_count, item.total_rows)
                /\ h > 0
                /\ h <= 10000

\* C19: for every FAILED item, failed_percentage is 100 * failed_count /
\* total_rows rounded to 2 decimals (1 of 3 gives 33.33); it lies between 0 and
\* 100, both included: it is greater than 0 when total_rows is less than
\* 20000 * failed_count, and it is 0.0 when total_rows is greater than that
\* (1 failure in 20001 records).
C19_Percentage ==
    IsValidationReport =>
        \A k \in FailedItems :
            LET item == report.validations[k]
                h == item.failed_percentage.n
            IN  /\ item.failed_percentage.d = 100
                /\ NearestHundredth(h, item.failed_count, item.total_rows)
                /\ h >= 0
                /\ h <= 10000
                /\ item.total_rows < 20000 * item.failed_count => h > 0
                /\ item.total_rows > 20000 * item.failed_count => h = 0
                /\ (item.failed_count = 1 /\ item.total_rows = 3) => h = 3333

\* a report on three records of which the missing-values rule flagged one:
\* 33.33
C19_Witness ==
    /\ IsValidationReport
    /\ report.validations["missing_values"].status = "failed"
    /\ report.validations["missing_values"].total_rows = 3
    /\ report.validations["missing_values"].failed_count = 1
    /\ report.validations["missing_values"].failed_percentage = Num(3333, 100)

\* the fields a rule's examples are projected onto
ExampleFields ==
    [numeric_types |-> {"symbol", "name"},
     missing_values |-> {"symbol", "name"},
     price_range |-> {"symbol", "name", "current_price"},
     market_cap |-> {"symbol", "name", "market_cap", "current_price",
                     "circulating_supply"},
     duplicates |-> {"id", "symbol", "name"}]

FlagOf ==
    [numeric_types |-> "has_non_numeric_value", price_range |-> "has_abnormal_price",
     market_cap |-> "has_invalid_market_cap", missing_values |-> "has_missing_values",
     duplicates |-> "has_duplicate"]

\* the position in the batch of the n-th record the column flags
NthFlagged(col, n) ==
    CHOOSE i \in Flagged(col) : Cardinality({j \in Flagged(col) : j <= i}) = n

\* C20: for every FAILED item of a validation report, examples holds the first
\* min(5, failed_count) flagged records in batch order, no unflagged record and
\* no more than 5, each projected onto the rule's fixed fields: symbol, name for
\* numeric_types and missing_values; symbol, name, current_price for
\* price_range; symbol, name, market_cap, current_price, circulating_supply for
\* market_cap; id, symbol, name for duplicates.
C20_Examples ==
    IsValidationReport =>
        \A k \in FailedItems :
            LET item == report.validations[k]
                wanted == IF item.failed_count < 5 THEN item.failed_count ELSE 5
            IN  /\ "examples" \in DOMAIN item
                /\ DOMAIN item.examples = 1..wanted
                /\ \A n \in 1..wanted :
                       LET i == NthFlagged(FlagOf[k], n)
                       IN  /\ DOMAIN item.examples[n] = ExampleFields[k]
                           /\ \A c \in ExampleFields[k] :
                                  item.examples[n][c] = df.rows[i][c]
                           /\ df.rows[i][FlagOf[k]] = Flag(TRUE)

\* a report on six records all flagged by the price rule, which keeps five
\* examples, while the market-cap rule's examples skip the first record, which
\* it did not flag
C20_Witness ==
    /\ IsValidationReport
    /\ Len(df.rows) = 6
    /\ report.validations["price_range"].failed_count = 6
    /\ Len(report.validations["price_range"].examples) = 5
    /\ df.rows[1]["symbol"] = Word("eth")
    /\ report.validations["market_cap"].status = "failed"
    /\ report.validations["market_cap"].examples[1]["symbol"] = Word("ada")

-----------------------------------------------------------------------------
(* CSV files: DataFrame.to_csv(index=False) and pd.read_csv *)

RECURSIVE DigitsOf(_)
DigitsOf(n) ==
    IF n < 10 THEN <<DigitSeq[n + 1]>>
    ELSE Append(DigitsOf(n \div 10), DigitSeq[(n % 10) + 1])

\* the field a cell is written as (whole numbers only; a missing value is an
\* empty field)
to_text(c) ==
    CASE c.kind = "nan" -> <<>>
      [] c.kind = "str" -> c.chars
      [] c.kind = "bool" -> IF c.v THEN <<"True">> ELSE <<"False">>
      [] c.kind = "num" /\ c.d = 1 ->
            IF c.n < 0 THEN <<"-">> \o DigitsOf(0 - c.n) ELSE DigitsOf(c.n)

to_csv(d) ==
    [kind |-> "csv", header |-> d.columns,
     lines |-> [i \in 1..len(d) |-> [c \in d.columns |-> to_text(d.rows[i][c])]]]

\* a file with no byte in it, and a file pd.read_csv cannot parse
EmptyFile == [kind |-> "empty"]
UnreadableFile == [kind |-> "unreadable"]

\* pd.read_csv: the type of a column is inferred from all of its fields
read_csv(f) ==
    IF f.kind = "empty" \/ (f.kind = "csv" /\ f.header = {}) THEN Raise("EmptyDataError")
    ELSE IF f.kind # "csv" THEN Raise("ParserError")
    ELSE LET fields(c) == {f.lines[i][c] : i \in 1..Len(f.lines)}
             numeric(c) == \A t \in fields(c) \ {<<>>} : IsNumericText(t)
             boolean(c) == fields(c) # {} /\ fields(c) \subseteq {<<"True">>, <<"False">>}
             cell(c, t) ==
                 IF t = <<>> THEN NaN
                 ELSE IF numeric(c) THEN ParseNumber(t)
                 ELSE IF boolean(c) THEN Flag(t = <<"True">>)
                 ELSE Txt(t)
         IN  DataFrame(f.header,
                       [i \in 1..Len(f.lines) |->
                           [c \in f.header |-> cell(c, f.lines[i][c])]])

-----------------------------------------------------------------------------
(* The DAG: src/dags/crypto_market_data_pipeline.py *)

\* lines 332-335
Upstream ==
    [t \in Tasks |->
        CASE t = "fetch_coingecko_data" -> {}
          [] t = "check_schema" -> {"fetch_coingecko_data"}
          [] t = "run_full_validation" -> {"check_schema"}
          [] t = "handle_schema_failure" -> {"check_schema"}
          [] t = "generate_quality_report" -> {"run_full_validation"}
          [] t = "notify_validation_complete" -> {"generate_quality_report"}
          [] t = "generate_error_report" -> {"handle_schema_failure"}
          [] t = "notify_schema_failure" -> {"generate_error_report"}
          [] t = "end" -> {"notify_validation_complete", "notify_schema_failure"}]

trigger_rule(t) == IF t = "end" THEN "none_failed_min_one_success" ELSE "all_success"

\* default_args and the per-task retries
retries(t) ==
    CASE t = "fetch_coingecko_data" -> 3
      [] t \in {"generate_quality_report", "generate_error_report"} -> 2
      [] t \in {"notify_validation_complete", "notify_schema_failure"} -> 0
      [] OTHER -> 1

Finished == {"success", "failed", "skipped", "upstream_failed"}
Failing == {"failed", "upstream_failed"}

\* the scheduler runs a task once its trigger rule is met
Ready(t) ==
    /\ ti[t] \in {"none", "up_for_retry"}
    /\ IF trigger_rule(t) = "all_success"
       THEN \A u \in Upstream[t] : ti[u] = "success"
       ELSE /\ \A u \in Upstream[t] : ti[u] \in {"success", "skipped"}
            /\ \E u \in Upstream[t] : ti[u] = "success"

\* the state a task instance takes when its callable returns (ok) or raises
Outcome(t, ok) ==
    IF ok THEN "success"
    ELSE IF try_number[t] + 1 <= retries(t) THEN "up_for_retry"
    ELSE "failed"

Finish(t, ok) ==
    /\ ti' = [ti EXCEPT ![t] = Outcome(t, ok)]
    /\ try_number' = [try_number EXCEPT ![t] = @ + 1]

session_vars == <<df, schema_result, raised, report, idle_vars>>

\* the scheduler marks a task that will never run
Propagate ==
    \E t \in Tasks :
        /\ ti[t] = "none"
        /\ Upstream[t] # {}
        /\ \A u \in Upstream[t] : ti[u] \in Finished
        /\ \/ /\ \E u \in Upstream[t] : ti[u] \in Failing
              /\ ti' = [ti EXCEPT ![t] = "upstream_failed"]
           \/ /\ \A u \in Upstream[t] : ti[u] \notin Failing
              /\ IF trigger_rule(t) = "all_success"
                 THEN \E u \in Upstream[t] : ti[u] = "skipped"
                 ELSE \A u \in Upstream[t] : ti[u] = "skipped"
              /\ ti' = [ti EXCEPT ![t] = "skipped"]
        /\ UNCHANGED <<session_vars, try_number, xcom, raw_file, flagged_file, notification>>

\* lines 40-64: the API call raises, or the records it returns are saved
FetchCoingeckoData ==
    /\ Ready("fetch_coingecko_data")
    /\ \/ /\ Finish("fetch_coingecko_data", FALSE)
          /\ UNCHANGED <<xcom, raw_file>>
       \/ \E data \in SeqsUpTo(SessionRecords, MaxFileRows) :
             /\ raw_file' = to_csv(IF data = <<>> THEN DataFrame({}, <<>>)
                                   ELSE Batch(AllColumns, data))
             /\ xcom' = [NoXCom EXCEPT !.record_count = Len(data),
                                       !.raw_file_path = "crypto_raw.csv"]
             /\ Finish("fetch_coingecko_data", TRUE)
    /\ UNCHANGED <<session_vars, flagged_file, notification>>

FileColumnSets == {REQUIRED_FIELDS \ {"circulating_supply"}, {"id", "current_price"}}

\* the raw file as check_schema may find it when the disk is not the one the
\* fetch wrote to, or the file was replaced: lines 73-91 tell these cases apart
FoundFiles ==
    {NoFile, EmptyFile, UnreadableFile}
        \cup {to_csv(b) : b \in Batches(FileColumnSets, SessionRecords, MaxFileRows)}

StorageChange ==
    /\ ti["fetch_coingecko_data"] = "success"
    /\ ti["check_schema"] = "none"
    /\ try_number["check_schema"] = 0
    /\ raw_file' \in FoundFiles
    /\ raw_file' # raw_file
    /\ UNCHANGED <<session_vars, ti, try_number, xcom, flagged_file, notification>>


branch_of_always_validates(result) == "run_full_validation"

\* lines 99-101: the branch check_schema returns for a gate result
branch_of(result) ==
    IF result = VALID THEN "run_full_validation" ELSE "handle_schema_failure"

\* check_schema without its test of line 73: the file is read whether or not
\* the path was pushed and the file exists
check_schema_no_file_test(raw_file_path, file) ==
    LET d == read_csv(file)
    IN  IF IsRaise(d) /\ d.raise = "EmptyDataError"
        THEN [schema_result |-> EMPTY_DATA,
              error_message |-> "CSV file is completely empty",
              return |-> "handle_schema_failure"]
        ELSE IF IsRaise(d) THEN Raise("AttributeError")
        ELSE [schema_result |-> validate_schema(d), error_message |-> Absent,
              return |-> "handle_schema_failure"]

\* lines 67-101: what check_schema pushes and returns, or the exception it
\* raises.  SchemaValidationStatus has no member INVALID, so the handler of an
\* unexpected read error raises AttributeError before it pushes anything.
check_schema(raw_file_path, file) ==
    IF raw_file_path = Absent \/ file.kind = "absent"
    THEN [schema_result |-> EMPTY_DATA, error_message |-> "Raw file not found",
          return |-> "handle_schema_failure"]
    ELSE LET d == read_csv(file)
         IN  IF IsRaise(d) /\ d.raise = "EmptyDataError"
             THEN [schema_result |-> EMPTY_DATA,
                   error_message |-> "CSV file is completely empty",
                   return |-> "handle_schema_failure"]
             ELSE IF IsRaise(d) THEN Raise("AttributeError")
             ELSE [schema_result |-> validate_schema(d), error_message |-> Absent,
                   return |-> branch_of(validate_schema(d))]

\* BranchPythonOperator: the direct downstream tasks not returned are skipped
CheckSchema ==
    /\ Ready("check_schema")
    /\ LET r == check_schema(xcom.raw_file_path, raw_file)
       IN  IF IsRaise(r)
           THEN /\ Finish("check_schema", FALSE)
                /\ xcom' = xcom
           ELSE /\ xcom' = [xcom EXCEPT !.schema_result = r.schema_result,
                                        !.error_message = r.error_message]
                /\ try_number' = [try_number EXCEPT !["check_schema"] = @ + 1]
                /\ ti' = [t \in Tasks |->
                             IF t = "check_schema" THEN "success"
                             ELSE IF "check_schema" \in Upstream[t] /\ t # r.return
                             THEN "skipped"
                             ELSE ti[t]]
    /\ UNCHANGED <<session_vars, raw_file, flagged_file, notification>>

\* lines 116-122: the five rules, then add_metadata, each on the result of the
\* one before; the first exception ends the chain
run_rules(d, now) ==
    LET r1 == flag_invalid_numeric_types(d)
        r2 == flag_abnormal_prices(r1.df)
        r3 == flag_invalid_market_cap(r2.df)
        r4 == flag_missing_values(r3.df)
        r5 == flag_duplicates(r4.df)
        r6 == add_metadata(r5.df, now)
    IN  IF r1.exc # "none" THEN r1
        ELSE IF r2.exc # "none" THEN r2
        ELSE IF r3.exc # "none" THEN r3
        ELSE IF r4.exc # "none" THEN r4
        ELSE IF r5.exc # "none" THEN r5
        ELSE r6

\* lines 130-137
validation_stats(d) ==
    [total_rows |-> len(d),
     invalid_types |-> CountFlagged(d, HAS_NON_NUMERIC_VALUE),
     invalid_prices |-> CountFlagged(d, HAS_ABNORMAL_PRICE),
     invalid_market_cap |-> CountFlagged(d, HAS_INVALID_MARKET_CAP),
     missing_values |-> CountFlagged(d, HAS_MISSING_VALUES),
     duplicates |-> CountFlagged(d, HAS_DUPLICATE)]

\* lines 104-145
RunFullValidation ==
    /\ Ready("run_full_validation")
    /\ \E now \in Timestamps :
          LET d == read_csv(raw_file)
              r == run_rules(d, now)
              fails ==
                  \/ xcom.raw_file_path = Absent
                  \/ raw_file.kind = "absent"
                  \/ IsRaise(d)
                  \/ r.exc # "none"
          IN  IF fails
              THEN /\ Finish("run_full_validation", FALSE)
                   /\ UNCHANGED <<xcom, flagged_file>>
              ELSE /\ flagged_file' = to_csv(r.df)
                   /\ xcom' = [xcom EXCEPT !.flagged_data_path = "flagged.csv",
                                           !.validation_stats = validation_stats(r.df)]
                   /\ Finish("run_full_validation", TRUE)
    /\ UNCHANGED <<session_vars, raw_file, notification>>

\* lines 148-171
GenerateQualityReport ==
    /\ Ready("generate_quality_report")
    /\ LET d == read_csv(flagged_file)
           r == generate_validation_report(d)
           fails ==
               \/ xcom.flagged_data_path = Absent
               \/ flagged_file.kind = "absent"
               \/ IsRaise(d)
               \/ IsRaise(r)
       IN  IF fails
           THEN /\ Finish("generate_quality_report", FALSE)
                /\ xcom' = xcom
           ELSE /\ xcom' = [xcom EXCEPT !.report_file_path = "quality_report.json",
                                        !.quality_report = r]
                /\ Finish("generate_quality_report", TRUE)
    /\ UNCHANGED <<session_vars, raw_file, flagged_file, notification>>

\* lines 174-187: the task only logs
HandleSchemaFailure ==
    /\ Ready("handle_schema_failure")
    /\ Finish("handle_schema_failure", TRUE)
    /\ UNCHANGED <<session_vars, xcom, raw_file, flagged_file, notification>>

\* lines 190-215: a pulled value that is no status code is taken as INVALID_TYPE
GenerateErrorReport ==
    /\ Ready("generate_error_report")
    /\ LET schema_status ==
               IF xcom.schema_result \in SchemaValidationStatus
               THEN xcom.schema_result ELSE INVALID_TYPE
       IN  xcom' = [xcom EXCEPT
                       !.error_report_file_path = "schema_error_report.json",
                       !.schema_error_report =
                           generate_schema_error_report(schema_status)]
    /\ Finish("generate_error_report", TRUE)
    /\ UNCHANGED <<session_vars, raw_file, flagged_file, notification>>

\* lines 235-240: the log call the quality report's status selects
notify_level(status) ==
    IF status = "FAILED" THEN "warning: completed with quality issues"
    ELSE "info: completed successfully"

\* lines 218-240
NotifyValidationComplete ==
    /\ Ready("notify_validation_complete")
    /\ notification' = notify_level(xcom.quality_report.status)
    /\ Finish("notify_validation_complete", TRUE)
    /\ UNCHANGED <<session_vars, xcom, raw_file, flagged_file>>

\* lines 245-262
NotifySchemaFailure ==
    /\ Ready("notify_schema_failure")
    /\ notification' = "error: schema failure summary"
    /\ Finish("notify_schema_failure", TRUE)
    /\ UNCHANGED <<session_vars, xcom, raw_file, flagged_file>>

\* lines 327-330
End ==
    /\ Ready("end")
    /\ Finish("end", TRUE)
    /\ UNCHANGED <<session_vars, xcom, raw_file, flagged_file, notification>>

InitPipeline ==
    /\ df = None
    /\ schema_result = "none"
    /\ raised = NotRaised
    /\ report = NoReport
    /\ NoRun

NextPipeline ==
    \/ FetchCoingeckoData
    \/ StorageChange
    \/ CheckSchema
    \/ RunFullValidation
    \/ GenerateQualityReport
    \/ HandleSchemaFailure
    \/ GenerateErrorReport
    \/ NotifyValidationComplete
    \/ NotifySchemaFailure
    \/ End
    \/ Propagate

SpecPipeline == InitPipeline /\ [][NextPipeline]_vars

-----------------------------------------------------------------------------
(* Claims on the DAG run, checked under SpecPipeline *)

\* the task's callable was executed at least once
Ran(t) == try_number[t] > 0
GateSucceeded == ti["check_schema"] = "success"
RunOver == \A t \in Tasks : ti[t] \in Finished

\* C5: in a run, run_full_validation and then generate_quality_report execute
\* only after check_schema obtained VALID; for any other gate result the run
\* takes handle_schema_failure and then generate_error_report; the two branches
\* are never both executed.
C5_GateBeforeRules ==
    /\ (Ran("run_full_validation") \/ Ran("generate_quality_report"))
          => (GateSucceeded /\ xcom.schema_result = VALID)
    /\ Ran("generate_quality_report") => ti["run_full_validation"] = "success"
    /\ Ran("generate_error_report") => ti["handle_schema_failure"] = "success"
    /\ (GateSucceeded /\ xcom.schema_result # VALID)
          => /\ xcom.schema_result \in SchemaValidationStatus
             /\ ti["run_full_validation"] = "skipped"
             /\ ti["handle_schema_failure"] # "skipped"
             /\ RunOver => /\ ti["handle_schema_failure"] = "success"
                           /\ ti["generate_error_report"] = "success"
    /\ (GateSucceeded /\ xcom.schema_result = VALID)
          => ti["handle_schema_failure"] = "skipped"
    /\ ~( /\ Ran("run_full_validation") \/ Ran("generate_quality_report")
          /\ Ran("handle_schema_failure") \/ Ran("generate_error_report") )

\* a run that is over, in which the gate found a required column missing and
\* the failure branch ran while the validation branch was skipped
C5_Witness ==
    /\ RunOver
    /\ xcom.schema_result = MISSING_REQUIRED_FIELDS
    /\ ti["generate_error_report"] = "success"
    /\ ti["run_full_validation"] = "skipped"
    /\ ti["generate_quality_report"] = "skipped"
    /\ ~Ran("generate_quality_report")

-----------------------------------------------------------------------------
(* check_schema and the tasks after it, on every input check_schema tells    *)
(* apart: the pushed path present or not, the file absent, empty, unreadable *)
(* or holding a batch                                                        *)

GateColumnSets == FileColumnSets \cup {AllColumns}

GateFiles ==
    {NoFile, EmptyFile, UnreadableFile}
        \cup {to_csv(b) : b \in Batches(GateColumnSets, SessionRecords, MaxFileRows)}

\* the fetch task is over; what it pushed and wrote is any of the inputs
InitGate ==
    /\ df = None
    /\ schema_result = "none"
    /\ raised = NotRaised
    /\ report = NoReport
    /\ ti = [t \in Tasks |-> IF t = "fetch_coingecko_data" THEN "success" ELSE "none"]
    /\ try_number = [t \in Tasks |-> IF t = "fetch_coingecko_data" THEN 1 ELSE 0]
    /\ \E path \in {Absent, "crypto_raw.csv"} :
           xcom = [NoXCom EXCEPT !.raw_file_path = path]
    /\ raw_file \in GateFiles
    /\ flagged_file = NoFile
    /\ notification = "none"
    /\ Idle

NextGate ==
    \/ CheckSchema
    \/ RunFullValidation
    \/ GenerateQualityReport
    \/ HandleSchemaFailure
    \/ GenerateErrorReport
    \/ NotifyValidationComplete
    \/ NotifySchemaFailure
    \/ End
    \/ Propagate

SpecGate == InitGate /\ [][NextGate]_vars

\* check_schema has no batch to look at: no path was pushed, the file does not
\* exist, or the file holds nothing
NoBatchAvailable ==
    \/ xcom.raw_file_path = "absent"
    \/ raw_file.kind \in {"absent", "empty"}
    \/ (raw_file.kind = "csv" /\ raw_file.header = {})

\* C21: no batch available is handled as EMPTY_DATA.  validate_schema on an
\* absent batch returns EMPTY_DATA; and check_schema, when no raw file path was
\* pushed, or the raw file does not exist, or it is completely empty, succeeds
\* at its first try, records schema_result EMPTY_DATA and selects
\* handle_schema_failure: run_full_validation and generate_quality_report are
\* skipped and never executed.
C21_NoBatchIsEmptyData ==
    /\ validate_schema(None) = "empty_data"
    /\ (NoBatchAvailable /\ Ran("check_schema")) =>
          /\ ti["check_schema"] = "success"
          /\ try_number["check_schema"] = 1
          /\ xcom.schema_result = "empty_data"
          /\ ti["run_full_validation"] = "skipped"
          /\ ti["handle_schema_failure"] # "skipped"
          /\ ~Ran("run_full_validation")
          /\ ~Ran("generate_quality_report")
          /\ xcom.flagged_data_path = "absent"
          /\ RunOver => ti["generate_error_report"] = "success"

\* a run that is over in which the raw file existed, with something in it, but
\* no path had been pushed: the failure branch reported EMPTY_DATA
C21_Witness ==
    /\ RunOver
    /\ xcom.raw_file_path = "absent"
    /\ raw_file.kind = "csv"
    /\ raw_file.header # {}
    /\ xcom.schema_result = "empty_data"
    /\ xcom.schema_error_report.stage = "schema_validation"
    /\ xcom.schema_error_report.error = "empty_data"
    /\ ti["run_full_validation"] = "skipped"

\* C27 as stated: every execution of check_schema completes, having recorded a
\* schema_result that is one of the four status codes and selected one of the
\* two branches (the other one is skipped).
C27_AlwaysBranchesAsStated ==
    Ran("check_schema") =>
        /\ ti["check_schema"] = "success"
        /\ xcom.schema_result \in {"valid", "empty_data", "invalid_type",
                                   "missing_required_fields"}
        /\ \/ ti["run_full_validation"] = "skipped" /\ ti["handle_schema_failure"] # "skipped"
           \/ ti["handle_schema_failure"] = "skipped" /\ ti["run_full_validation"] # "skipped"

\* C29 as stated: notify_validation_complete takes its warning path exactly
\* when the status of the quality report is FAILED, and its success path
\* exactly when that status is PASSED.
C29_WarningOnFailedAsStated ==
    Ran("notify_validation_complete") =>
        /\ notification = "warning: completed with quality issues"
              <=> xcom.quality_report.status = "failed"
        /\ notification = "info: completed successfully"
              <=> xcom.quality_report.status = "passed"

-----------------------------------------------------------------------------
(* One validator shared by concurrent callers, each on its own batch *)

\* most records in a batch of a concurrent caller
MaxSharedRows == 2

Callers == {"caller_1", "caller_2"}

\* the methods in the order run_full_validation calls them
MethodOrder ==
    <<"flag_invalid_numeric_types", "flag_abnormal_prices", "flag_invalid_market_cap",
      "flag_missing_values", "flag_duplicates", "add_metadata">>

apply_method(name, d, now) ==
    CASE name = "flag_invalid_numeric_types" -> flag_invalid_numeric_types(d)
      [] name = "flag_abnormal_prices" -> flag_abnormal_prices(d)
      [] name = "flag_invalid_market_cap" -> flag_invalid_market_cap(d)
      [] name = "flag_missing_values" -> flag_missing_values(d)
      [] name = "flag_duplicates" -> flag_duplicates(d)
      [] name = "add_metadata" -> add_metadata(d, now)

\* a validator that keeps the batch it is working on as an attribute, and
\* goes on from the batch it kept
call_keeps_batch(self, name, d, now) ==
    LET work == IF self = NoAttributes THEN d ELSE self[1]
        result == apply_method(name, work, now)
    IN  [self |-> <<result.df>>, result |-> result]

\* self.method(df): the methods read the class constants and their argument,
\* and assign no attribute of self
call(self, name, d, now) == [self |-> self, result |-> apply_method(name, d, now)]

\* a clean record, and a record repeating its id with a non-numeric price
SharedRecords ==
    { Record(Word("bitcoin"), Word("btc"), Num(100, 1), Num(100000000, 1),
             Num(1000000, 1), Num(101, 1)),
      Record(Word("bitcoin"), Word("btc"), Word("invalid"), Num(100000000, 1),
             Num(1000000, 1), NaN) }

SharedInputs == Batches({AllColumns}, SharedRecords, MaxSharedRows)

InitShared ==
    /\ df = None
    /\ schema_result = "none"
    /\ raised = NotRaised
    /\ report = NoReport
    /\ NoDagRun
    /\ api = NoCall
    /\ validator = NoAttributes
    /\ \E batch \in [Callers -> SharedInputs] :
           callers = [c \in Callers |->
                         [input |-> batch[c], df |-> batch[c], pc |-> 0,
                          exc |-> "none", report |-> NoReport]]

\* the caller's next method call on its batch
CallerRule(c) ==
    /\ callers[c].pc < Len(MethodOrder)
    /\ callers[c].exc = "none"
    /\ \E now \in Timestamps :
           LET r == call(validator, MethodOrder[callers[c].pc + 1], callers[c].df, now)
           IN  /\ validator' = r.self
               /\ callers' = [callers EXCEPT ![c].df = r.result.df,
                                              ![c].exc = r.result.exc,
                                              ![c].pc = @ + 1]
    /\ UNCHANGED <<df, schema_result, raised, report, ti, try_number, xcom,
                   raw_file, flagged_file, notification, api>>

\* the caller's report on its batch, after its six method calls
CallerReport(c) ==
    /\ callers[c].pc = Len(MethodOrder)
    /\ callers[c].exc = "none"
    /\ LET r == generate_validation_report(callers[c].df)
       IN  callers' = [callers EXCEPT ![c].report = r, ![c].pc = @ + 1]
    /\ UNCHANGED <<df, schema_result, raised, report, ti, try_number, xcom,
                   raw_file, flagged_file, notification, api, validator>>

NextShared == \E c \in Callers : CallerRule(c) \/ CallerReport(c)

SpecShared == InitShared /\ [][NextShared]_vars

\* the batch a run executed alone, from its first step to its last, leaves
Alone(input) ==
    flag_duplicates(
        flag_missing_values(
            flag_invalid_market_cap(
                flag_abnormal_prices(
                    flag_invalid_numeric_types(input).df).df).df).df).df

\* C22: the validator holds no state of its own at any time, and for every
\* interleaving of the steps of two runs that share it, each on its own batch,
\* a run that has gone through the five rules has the five flag columns, and a
\* run that has built its report has the report, that the run has when it is
\* executed alone.
C22_SharedValidator ==
    /\ validator = <<>>
    /\ \A c \in DOMAIN callers :
          LET run == callers[c]
              alone == Alone(run.input)
          IN  /\ run.exc = "none"
              /\ run.pc >= 5 =>
                    /\ Len(run.df.rows) = Len(alone.rows)
                    /\ \A i \in 1..Len(alone.rows) :
                          \A col \in {"has_non_numeric_value", "has_abnormal_price",
                                       "has_invalid_market_cap", "has_missing_values",
                                       "has_duplicate"} :
                              /\ col \in run.df.columns
                              /\ run.df.rows[i][col] = alone.rows[i][col]
              /\ run.pc = 7 => run.report = generate_validation_report(alone)

\* the two runs are over, on different batches: one report FAILED, the other
\* PASSED
C22_Witness ==
    /\ DOMAIN callers = {"caller_1", "caller_2"}
    /\ callers["caller_1"].pc = 7
    /\ callers["caller_2"].pc = 7
    /\ Len(callers["caller_1"].input.rows) = 2
    /\ Len(callers["caller_2"].input.rows) = 1
    /\ callers["caller_1"].report.status = "failed"
    /\ callers["caller_2"].report.status = "passed"

-----------------------------------------------------------------------------
(* The CoinGecko client: one call of get_markets_data *)

\* most items in the payload of a response
MaxItems == 2

PerPageInputs == {0, 1, 250, 251}
PageInputs == {0, 1, 2}

\* a parameter check that leaves the page unchecked
parameters_error_page_unchecked(per_page, page) ==
    IF ~(1 <= per_page /\ per_page <= 250) THEN "ValueError" ELSE "none"

\* the parameter validation at the head of get_markets_data
parameters_error(per_page, page) ==
    IF ~(1 <= per_page /\ per_page <= 250) THEN "ValueError"
    ELSE IF page < 1 THEN "ValueError"
    ELSE "none"

\* the fields of CryptoDataSchema: none has a default, so each is a required
\* key of an item
SchemaFields ==
    {"id", "symbol", "name", "current_price", "high_24h", "low_24h",
     "price_change_24h", "market_cap", "market_cap_rank", "market_cap_change_24h",
     "market_cap_change_percentage_24h", "total_volume", "circulating_supply",
     "total_supply", "max_supply", "price_change_percentage_24h"}

\* CryptoDataSchema(**item): the error it raises, or "none"
CryptoDataSchema(item) ==
    IF ~item.object THEN "TypeError"
    ELSE IF ~(SchemaFields \subseteq item.fields) THEN "ValidationError"
    ELSE IF item.id.kind # "str" THEN "ValidationError"
    ELSE "none"

\* items of a payload: two coins as the API documents them (extra keys are
\* ignored), an object without its id, and an element that is no object
Items ==
    { [object |-> TRUE, fields |-> SchemaFields \cup {"image"}, id |-> Word("bitcoin")],
      [object |-> TRUE, fields |-> SchemaFields \cup {"image"}, id |-> Word("ethereum")],
      [object |-> TRUE, fields |-> SchemaFields \ {"id"}, id |-> NaN],
      [object |-> FALSE, fields |-> {}, id |-> NaN] }

NoHeader == [present |-> FALSE, chars |-> <<>>]
Header(s) == [present |-> TRUE, chars |-> s]

\* Retry-After as the server may send it: absent, a number of seconds, or an
\* HTTP date
RetryAfterHeaders ==
    {NoHeader, Header(<<"6", "0">>), Header(<<"1", "2", "0">>),
     Header(<<"Wed, 21 Oct 2015 07:28:00 GMT">>)}

NoBody == [json |-> FALSE, list |-> FALSE, items |-> <<>>]

\* the body of a 200 response: not JSON, a JSON object, or a JSON list
Bodies ==
    {NoBody, [json |-> TRUE, list |-> FALSE, items |-> <<>>]}
        \cup {[json |-> TRUE, list |-> TRUE, items |-> s] : s \in SeqsUpTo(Items, MaxItems)}

HttpResponse(status_code, retry_after, body) ==
    [kind |-> "response", status_code |-> status_code, retry_after |-> retry_after,
     body |-> body]

NoResponse == [kind |-> "none"]

\* what requests.get does: it times out, fails in transport, or returns a
\* response
Responses ==
    {[kind |-> "Timeout"], [kind |-> "ConnectionError"]}
        \cup {HttpResponse(429, h, NoBody) : h \in RetryAfterHeaders}
        \cup {HttpResponse(s, NoHeader, NoBody) : s \in {400, 500}}
        \cup {HttpResponse(200, NoHeader, b) : b \in Bodies}

ReturnedRecords(n) == [kind |-> "returned", records |-> n]
Raises(kind) == [kind |-> kind, records |-> 0]
NoOutcome == [kind |-> "none", records |-> 0]

\* the first error of [CryptoDataSchema(**item) for item in json_data], or the
\* records it builds
RECURSIVE market_data(_, _)
market_data(items, built) ==
    IF items = <<>> THEN ReturnedRecords(built)
    ELSE IF CryptoDataSchema(Head(items)) # "none"
         THEN Raises(CryptoDataSchema(Head(items)))
         ELSE market_data(Tail(items), built + 1)

\* the try block of get_markets_data from the response on, with its two except
\* clauses: the ways the call can end. A body that is not JSON makes
\* response.json() raise an error that is a RequestException in some versions
\* of requests and a plain ValueError in the others.
handle_response(response) ==
    IF response.kind = "Timeout" THEN {Raises("CoinGeckoAPIError")}
    ELSE IF response.kind = "ConnectionError" THEN {Raises("CoinGeckoAPIError")}
    ELSE IF response.status_code = 429 THEN
        IF ~response.retry_after.present \/ IsNumericText(response.retry_after.chars)
        THEN {Raises("CoinGeckoAPIError")}
        ELSE {Raises("ValueError")}
    ELSE IF response.status_code # 200 THEN {Raises("CoinGeckoAPIError")}
    ELSE IF ~response.body.json THEN {Raises("CoinGeckoAPIError"), Raises("JSONDecodeError")}
    ELSE IF ~response.body.list THEN {Raises("TypeError")}
    ELSE {market_data(response.body.items, 0)}

InitClient ==
    /\ df = None
    /\ schema_result = "none"
    /\ raised = NotRaised
    /\ report = NoReport
    /\ NoDagRun
    /\ validator = NoAttributes
    /\ callers = NoCallers
    /\ api = NoCall

client_vars == <<df, schema_result, raised, report, ti, try_number, xcom, raw_file,
                 flagged_file, notification, validator, callers>>

\* get_markets_data up to its request: the parameters are validated, then a
\* single requests.get is made
GetMarketsData ==
    /\ api.stage \in {"none", "done"}
    /\ \E per_page \in PerPageInputs, page \in PageInputs :
          IF parameters_error(per_page, page) # "none"
          THEN api' = [stage |-> "done", per_page |-> per_page, page |-> page,
                       requests |-> 0, response |-> NoResponse,
                       outcome |-> Raises(parameters_error(per_page, page))]
          ELSE api' = [stage |-> "requesting", per_page |-> per_page, page |-> page,
                       requests |-> 1, response |-> NoResponse, outcome |-> NoOutcome]
    /\ UNCHANGED client_vars

\* get_markets_data from the end of its request: it returns or raises
RequestEnds ==
    /\ api.stage = "requesting"
    /\ \E response \in Responses :
          \E outcome \in handle_response(response) :
              api' = [api EXCEPT !.stage = "done", !.response = response,
                                 !.outcome = outcome]
    /\ UNCHANGED client_vars

NextClient == GetMarketsData \/ RequestEnds

SpecClient == InitClient /\ [][NextClient]_vars

\* C23 as stated: a call whose parameters are valid ends by returning one
\* record per element of a 200 response, or by raising CoinGeckoAPIError.
C23_UpstreamFailuresAsStated ==
    (api.stage = "done" /\ api.requests = 1) =>
        \/ api.outcome.kind = "CoinGeckoAPIError"
        \/ /\ api.outcome.kind = "returned"
           /\ api.response.kind = "response"
           /\ api.response.status_code = 200
           /\ api.outcome.records = Len(api.response.body.items)

\* C24: a call with per_page outside 1..250 or page below 1 ends with
\* ValueError and has sent no HTTP request; a call with valid parameters has
\* sent exactly one request, while it waits and however it ends.
C24_ParametersFirst ==
    api.stage # "none" =>
        IF api.per_page < 1 \/ api.per_page > 250 \/ api.page < 1
        THEN /\ api.stage = "done"
             /\ api.outcome.kind = "ValueError"
             /\ api.requests = 0
             /\ api.response = [kind |-> "none"]
        ELSE api.requests = 1

\* a call with a valid per_page and page 0 has ended without a request
C24_Witness ==
    /\ api.stage = "done"
    /\ api.per_page = 250
    /\ api.page = 0
    /\ api.requests = 0
    /\ api.outcome.kind = "ValueError"

-----------------------------------------------------------------------------
(* The methods of the validator applied to one batch in any order *)

\* most records in a batch the methods are applied to in any order
MaxOrderRows == 2

\* a clean record; a record repeating its id, with a missing symbol and a
\* non-numeric price; a record with a negative price, a market cap 10% off and
\* a missing extra field
OrderRecords ==
    { Record(Word("bitcoin"), Word("btc"), Num(100, 1), Num(100000000, 1),
             Num(1000000, 1), Num(101, 1)),
      Record(Word("bitcoin"), NaN, Word("invalid"), Num(100000000, 1),
             Num(1000000, 1), Num(101, 1)),
      Record(Word("ethereum"), Word("eth"), Num(0 - 100, 1), Num(110000000, 1),
             Num(1000000, 1), NaN) }

OrderColumnSets == {AllColumns, REQUIRED_FIELDS \ {"circulating_supply"}}

OrderInputs == Batches(OrderColumnSets, OrderRecords, MaxOrderRows)

Methods == {MethodOrder[k] : k \in 1..Len(MethodOrder)}

InitOrder ==
    /\ df = None
    /\ schema_result = "none"
    /\ raised = NotRaised
    /\ report = NoReport
    /\ NoDagRun
    /\ api = NoCall
    /\ validator = NoAttributes
    /\ \E batch \in OrderInputs :
           callers = [c \in {"any_order"} |->
                         [input |-> batch, df |-> batch, applied |-> {},
                          last |-> "none", exc |-> "none"]]

\* a method not yet called is called on the batch
CallAnyMethod(c) ==
    /\ callers[c].exc = "none"
    /\ \E name \in Methods \ callers[c].applied, now \in Timestamps :
           LET r == call(validator, name, callers[c].df, now)
           IN  /\ validator' = r.self
               /\ callers' = [callers EXCEPT ![c].df = r.result.df,
                                              ![c].exc = r.result.exc,
                                              ![c].last = name,
                                              ![c].applied = @ \cup {name}]
    /\ UNCHANGED <<df, schema_result, raised, report, ti, try_number, xcom,
                   raw_file, flagged_file, notification, api>>

NextOrder == \E c \in DOMAIN callers : CallAnyMethod(c)

SpecOrder == InitOrder /\ [][NextOrder]_vars

FiveRules ==
    [flag_invalid_numeric_types |-> "has_non_numeric_value",
     flag_abnormal_prices |-> "has_abnormal_price",
     flag_invalid_market_cap |-> "has_invalid_market_cap",
     flag_missing_values |-> "has_missing_values",
     flag_duplicates |-> "has_duplicate"]

\* C25: in whatever order the flag rules have been applied to a batch, the
\* flag column of each rule applied holds, record by record, the value the
\* rule gives on the batch as it was before any rule; once the five rules are
\* applied, the five flag columns are those of the rules applied in the order
\* of run_full_validation.
C25_OrderIndependent ==
    \A c \in DOMAIN callers :
        LET run == callers[c]
        IN  run.exc = "none" =>
              /\ \A name \in run.applied \cap DOMAIN FiveRules :
                    \A i \in 1..Len(run.input.rows) :
                        run.df.rows[i][FiveRules[name]]
                            = apply_method(name, run.input, "").df.rows[i][FiveRules[name]]
              /\ DOMAIN FiveRules \subseteq run.applied =>
                    \A i \in 1..Len(run.input.rows) :
                        \A name \in DOMAIN FiveRules :
                            run.df.rows[i][FiveRules[name]]
                                = Alone(run.input).rows[i][FiveRules[name]]

\* the five rules are applied, the duplicate rule first and the numeric rule
\* last, to two records of which the second is flagged by the numeric, the
\* missing-values and the duplicate rule
C25_Witness ==
    /\ DOMAIN callers = {"any_order"}
    /\ callers["any_order"].applied =
          {"flag_invalid_numeric_types", "flag_abnormal_prices",
           "flag_invalid_market_cap", "flag_missing_values", "flag_duplicates"}
    /\ callers["any_order"].last = "flag_invalid_numeric_types"
    /\ callers["any_order"].exc = "none"
    /\ Len(callers["any_order"].df.rows) = 2
    /\ callers["any_order"].df.rows[2]["has_duplicate"] = Flag(TRUE)
    /\ callers["any_order"].df.rows[2]["has_missing_values"] = Flag(TRUE)
    /\ callers["any_order"].df.rows[2]["has_non_numeric_value"] = Flag(TRUE)

OutputColumn ==
    [flag_invalid_numeric_types |-> "has_non_numeric_value",
     flag_abnormal_prices |-> "has_abnormal_price",
     flag_invalid_market_cap |-> "has_invalid_market_cap",
     flag_missing_values |-> "has_missing_values",
     flag_duplicates |-> "has_duplicate",
     add_metadata |-> "validated_at"]

\* C26: a call of a flag rule or of add_metadata leaves the batch with the
\* same records in the same order, adds its own output column and no other,
\* and leaves every other column - the input fields, the extra columns and the
\* columns written by the other methods - with the values it had.
C26_FrameEffect ==
    [][\A c \in DOMAIN callers :
          callers'[c] # callers[c] =>
              LET before == callers[c].df
                  after == callers'[c].df
                  own == OutputColumn[callers'[c].last]
              IN  /\ Len(after.rows) = Len(before.rows)
                  /\ after.columns = before.columns \cup {own}
                  /\ \A i \in 1..Len(before.rows) :
                        \A col \in before.columns \ {own} :
                            after.rows[i][col] = before.rows[i][col]]_vars

\* the six methods have been called, add_metadata before the missing-values
\* rule, on two records with the extra column, one of its values missing
C26_Witness ==
    /\ DOMAIN callers = {"any_order"}
    /\ callers["any_order"].applied = DOMAIN OutputColumn
    /\ callers["any_order"].last = "flag_missing_values"
    /\ Len(callers["any_order"].df.rows) = 2
    /\ "high_24h" \in callers["any_order"].df.columns
    /\ callers["any_order"].df.rows[2]["high_24h"] = NaN
    /\ callers["any_order"].df.rows[1]["has_missing_values"] = Flag(TRUE)

=============================================================================
